---- MODULE Spec2Model ----
(***************************************************************************)
(* Model of the webgl-water Go port: the state reducer (State.Update and   *)
(* the orbit camera), its reader/writer lock, and the server's timer,      *)
(* subscriber set and state pushes.                                        *)
(*                                                                         *)
(* Number representation.  float32 values are modelled as exact fixed-     *)
(* point integers; float32 rounding is not modelled.                       *)
(*   - yaw and pitch are counted in units of 1/50 radian, the angle of one *)
(*     pixel of mouse travel (state.go:83-84 divide the pixel delta by     *)
(*     50.0), so pitch 0.3 is 15 and the pitch bounds -1.5/1.5 are -75/75; *)
(*   - distance and zoom deltas are counted in whole world units;          *)
(*   - the clock and its deltas are counted in milliseconds;               *)
(*   - water floats are counted in units of 1/100.                         *)
(* Message values range over finite numbers only: NaN and the infinities   *)
(* are outside the model.  Pixel coordinates are two's-complement integers *)
(* whose subtraction wraps.  The model checker's own integers are 32 bits  *)
(* wide, so the int32 of the code is modelled with IntBits bits: MinInt32  *)
(* and MaxInt32 are the extreme values of that narrower type and the       *)
(* subtraction wraps modulo 2^IntBits.                                     *)
(*                                                                         *)
(* The camera position is built from sines and cosines of yaw and pitch,   *)
(* which are not evaluated: a position is the expression the code          *)
(* computes (Plus, Times, Sin, Cos over the camera fields), and two        *)
(* positions are equal when they are the same expression.                  *)
(*                                                                         *)
(* The float32 values of the vector library and of the mesh generator are  *)
(* exact rationals <<numerator, denominator>> in lowest terms; a           *)
(* denominator 0 stands for the results of a division by zero (<<1, 0>>    *)
(* and <<-1, 0>> the infinities, <<0, 0>> NaN).  Square roots are taken of *)
(* squares of rationals only, and the inputs are chosen accordingly.       *)
(* A grid mesh is measured in units of size/(2*segments), half the         *)
(* distance of two grid lines, so step is 2 and halfSize is segments for   *)
(* every size; the terrain's heightScale is given by its ratio to size.    *)
(* The 16-bit vertex index is modelled with IndexBits bits, so that a grid *)
(* with more vertices than the index type has values fits the model.       *)
(***************************************************************************)
EXTENDS Integers, FiniteSets, Sequences, TLC

VARIABLES
    appState,   \* Server.appState: the State struct (clock, camera, mouse, water, scenery)
    last,       \* the message most recently handed to State.Update (NoMsg before the first)
    nmsgs,      \* number of messages reduced so far
    mu,         \* State.mu, the sync.RWMutex: [w, writing, readers]
    pc,         \* per goroutine: its position in Update / in a snapshot
    cur,        \* per goroutine: the message its Update call is reducing
    old,        \* per goroutine: the locals oldX, oldY of the mouse-move case
    before,     \* per goroutine: appState when its Update acquired the lock
    applied,    \* the messages of the Updates that acquired the lock, in that order
    snap,       \* per goroutine: the values its getters copied out so far
    clients,    \* Server.clients: the connections registered as subscribers
    closed,     \* the connections on which Close has been called
    hpc,        \* per connection: the position of its handleWebSocket goroutine
    tpc,        \* the position of the startStateUpdates goroutine (the timer)
    tconn,      \* the loop variable conn of broadcastStateUpdate
    todo,       \* the entries the range over clients has still to produce
    ticks,      \* number of ticks the timer has handled
    pushed,     \* per connection: pushes to it in the current broadcast
    atStart,    \* the subscriber set when the current broadcast started its range
    removed,    \* the connections whose broadcast push failed
    cam,        \* a Camera object whose methods are called directly
    calls,      \* number of method calls made on cam
    fn,         \* the library function or method called last ("none" before the first)
    arg,        \* the argument of that call
    out,        \* the value that call returned
    mesh,       \* the locals of the running Create...Mesh call, then the mesh it returned
    mpc         \* the position of the mesh generator

vars == <<appState, last, nmsgs, mu, pc, cur, old, before, applied, snap,
          clients, closed, hpc, tpc, tconn, todo, ticks, pushed, atStart, removed,
          cam, calls, fn, arg, out, mesh, mpc>>

cameraVars == <<cam, calls>>

callVars == <<fn, arg, out>>

meshVars == <<mesh, mpc>>

libVars == <<cameraVars, callVars, meshVars>>

notServer == <<last, nmsgs, mu, pc, cur, old, before, applied, snap>>

serverVars == <<clients, closed, hpc, tpc, tconn, todo, ticks, pushed, atStart, removed>>

lockVars == <<mu, pc, cur, old, before, applied, snap>>

----------------------------------------------------------------------------
(* Program constants (state.go NewCamera, NewWater) in the units above.    *)

DefaultDistance == 15
MinDistance == 5
MaxDistance == 50
DefaultPitch == 15
MinPitch == -75
MaxPitch == 75
PixelsPerRadian == 50
DefaultReflectivity == 60
DefaultFresnel == 200
DefaultWaveSpeed == 3
TickMillis == 16
ReadmeZoomLimit == 150
WaterSegments == 64
TerrainSegments == 32

(* Bounds of the model.                                                    *)
MaxMsgs == 3
IntBits == 16
MaxUpdates == 2
MaxTicks == 2
NumConns == 2
MaxCalls == 3
MaxSegments == 4
MaxPosts == 2
IndexBits == 4

RECURSIVE TwoToThe(_)
TwoToThe(n) == IF n = 0 THEN 1 ELSE 2 * TwoToThe(n - 1)

MinInt32 == 0 - TwoToThe(IntBits - 1)

MaxInt32 == TwoToThe(IntBits - 1) - 1

----------------------------------------------------------------------------
(* int32 arithmetic: Go's subtraction of two int32 wraps around.           *)

Fits32(v) == MinInt32 <= v /\ v <= MaxInt32

Wrap32(v) == ((v - MinInt32) % TwoToThe(IntBits)) + MinInt32

Sub32(a, b) == Wrap32(a - b)

----------------------------------------------------------------------------
(* float32 arithmetic on exact rationals.                                  *)

RECURSIVE GCD(_, _)
GCD(a, b) == IF b = 0 THEN a ELSE GCD(b, a % b)

Abs(n) == IF n < 0 THEN 0 - n ELSE n

Sign(n) == IF n < 0 THEN -1 ELSE IF n > 0 THEN 1 ELSE 0

Rat(n, d) ==
    IF d = 0 THEN <<Sign(n), 0>>
    ELSE LET g == GCD(Abs(n), Abs(d))
         IN  <<(Sign(d) * n) \div g, Abs(d) \div g>>

F(n) == <<n, 1>>

RZero == F(0)

ROne == F(1)

IsFinite(a) == a[2] # 0

RAdd(a, b) == Rat(a[1] * b[2] + b[1] * a[2], a[2] * b[2])

RSub(a, b) == Rat(a[1] * b[2] - b[1] * a[2], a[2] * b[2])

RMul(a, b) == Rat(a[1] * b[1], a[2] * b[2])

RDiv(a, b) == Rat(a[1] * b[2], a[2] * b[1])

RNeg(a) == <<0 - a[1], a[2]>>

RAbs(a) == <<Abs(a[1]), a[2]>>

RLess(a, b) == IsFinite(a) /\ IsFinite(b) /\ a[1] * b[2] < b[1] * a[2]

ISqrt(n) == CHOOSE r \in 0..n : r * r = n

RSqrt(a) == <<ISqrt(a[1]), ISqrt(a[2])>>

----------------------------------------------------------------------------
(* Float expressions that are kept as written instead of evaluated.        *)

Num(n) == <<"num", n>>

Cos(a) == <<"cos", a>>

Sin(a) == <<"sin", a>>

Times(a, b) == <<"mul", a, b>>

Plus(a, b) == <<"add", a, b>>

InitialPosition == <<Num(0), Num(5), Num(10)>>

----------------------------------------------------------------------------
(* Constructors.                                                           *)

NewCamera ==
    [position |-> InitialPosition, target |-> <<0, 0, 0>>, up |-> <<0, 1, 0>>,
     distance |-> DefaultDistance, yaw |-> 0, pitch |-> DefaultPitch,
     minDistance |-> MinDistance, maxDistance |-> MaxDistance,
     minPitch |-> MinPitch, maxPitch |-> MaxPitch]

NewMouse == [x |-> 0, y |-> 0, pressed |-> FALSE]

NewWater ==
    [Reflectivity |-> DefaultReflectivity, FresnelStrength |-> DefaultFresnel,
     WaveSpeed |-> DefaultWaveSpeed, UseReflection |-> TRUE, UseRefraction |-> TRUE]

NewState ==
    [clock |-> 0, camera |-> NewCamera, mouse |-> NewMouse, water |-> NewWater,
     scenery |-> TRUE]

----------------------------------------------------------------------------
(* Camera and mouse methods.  OrbitUpDown and Zoom are two statements      *)
(* each: the addition, then the two clamping tests.                        *)

OrbitLeftRight(c, delta) == [c EXCEPT !.yaw = @ + delta]

AddPitch(c, delta) == [c EXCEPT !.pitch = @ + delta]

(* Variant of ClampPitch without the maxPitch test.                        *)
ClampPitchNoMax(c) ==
    IF c.pitch < c.minPitch THEN [c EXCEPT !.pitch = c.minPitch] ELSE c

ClampPitch(c) ==
    LET c1 == IF c.pitch < c.minPitch THEN [c EXCEPT !.pitch = c.minPitch] ELSE c
    IN  IF c1.pitch > c1.maxPitch THEN [c1 EXCEPT !.pitch = c1.maxPitch] ELSE c1

OrbitUpDown(c, delta) == ClampPitch(AddPitch(c, delta))

AddDistance(c, delta) == [c EXCEPT !.distance = @ + delta]

(* Variant of ClampDistance without the minDistance test.                  *)
ClampDistanceNoMin(c) ==
    IF c.distance > c.maxDistance THEN [c EXCEPT !.distance = c.maxDistance] ELSE c

ClampDistance(c) ==
    LET c1 == IF c.distance < c.minDistance THEN [c EXCEPT !.distance = c.minDistance] ELSE c
    IN  IF c1.distance > c1.maxDistance THEN [c1 EXCEPT !.distance = c1.maxDistance] ELSE c1

Zoom(c, delta) == ClampDistance(AddDistance(c, delta))

(* Variant of updatePosition that keeps the stored position.               *)
updatePositionCached(c) == c

updatePosition(c) ==
    LET x == Times(Times(c.distance, Cos(c.pitch)), Sin(c.yaw))
        y == Times(c.distance, Sin(c.pitch))
        z == Times(Times(c.distance, Cos(c.pitch)), Cos(c.yaw))
    IN  [c EXCEPT !.position =
            <<Plus(c.target[1], x), Plus(c.target[2], y), Plus(c.target[3], z)>>]

LookAt(eye, target, up) == <<"LookAt", eye, target, up>>

SetPos(m, x, y) == [m EXCEPT !.x = x, !.y = y]

SetPressed(m, pressed) == [m EXCEPT !.pressed = pressed]

GetPos(m) == [x |-> m.x, y |-> m.y]

GetPressed(m) == m.pressed

----------------------------------------------------------------------------
(* Messages.  Every message is a record of the same shape; a field a       *)
(* message type does not have is 0 / FALSE.  "Unknown" is a type that      *)
(* implements Message and is not a case of the switch; "Nil" is the nil    *)
(* interface value.                                                        *)

Msg(t, x, y, num, flag) == [type |-> t, X |-> x, Y |-> y, Num |-> num, Flag |-> flag]

NoMsg == Msg("None", 0, 0, 0, FALSE)

FloatTypes == {"SetReflectivity", "SetFresnel", "SetWaveSpeed"}

BoolTypes == {"UseReflection", "UseRefraction", "ShowScenery"}

PropertyTypes == FloatTypes \cup BoolTypes

UnhandledTypes == {"Unknown", "Nil"}

XCoords == {MinInt32, 0, 30}

YCoords == {0, 40, 10 * PixelsPerRadian}

ClockDeltas == {-16, 0, 16}

ZoomDeltas == {-100, -3, 4, 100}

FloatValues == {-100, 250}

Messages ==
    {Msg("AdvanceClock", 0, 0, d, FALSE) : d \in ClockDeltas}
    \cup {Msg("MouseDown", x, y, 0, FALSE) : x \in XCoords, y \in YCoords}
    \cup {Msg("MouseUp", 0, 0, 0, FALSE)}
    \cup {Msg("MouseMove", x, y, 0, FALSE) : x \in XCoords, y \in YCoords}
    \cup {Msg("Zoom", 0, 0, d, FALSE) : d \in ZoomDeltas}
    \cup {Msg(t, 0, 0, v, FALSE) : t \in FloatTypes, v \in FloatValues}
    \cup {Msg(t, 0, 0, 0, b) : t \in BoolTypes, b \in BOOLEAN}
    \cup {Msg(t, 0, 0, 0, FALSE) : t \in UnhandledTypes}

----------------------------------------------------------------------------
(* State.Update: the statements of the cases of the type switch, then the  *)
(* whole reduce step.                                                      *)

XDelta(oldPos, m) == Sub32(oldPos.x, m.X)

YDelta(oldPos, m) == Sub32(m.Y, oldPos.y)

(* Variant of AdvanceClockCase that adds the magnitude of the delta.       *)
AdvanceClockCaseAbs(s, m) == [s EXCEPT !.clock = @ + (IF m.Num < 0 THEN 0 - m.Num ELSE m.Num)]

AdvanceClockCase(s, m) == [s EXCEPT !.clock = @ + m.Num]

(* Variant of MouseDownCase that also orbits by the jump from the stored   *)
(* position to the position of the press.                                  *)
MouseDownCaseOrbits(s, m) ==
    [s EXCEPT !.camera = OrbitLeftRight(@, XDelta(GetPos(s.mouse), m)),
              !.mouse = SetPos(SetPressed(@, TRUE), m.X, m.Y)]

MouseDownCase(s, m) == [s EXCEPT !.mouse = SetPos(SetPressed(@, TRUE), m.X, m.Y)]

MouseUpCase(s) == [s EXCEPT !.mouse = SetPressed(@, FALSE)]

(* Variant of MouseMovePressed without the final SetPos.                   *)
MouseMovePressedNoSetPos(s, m) ==
    LET oldPos == GetPos(s.mouse)
    IN  [s EXCEPT !.camera = OrbitUpDown(OrbitLeftRight(@, XDelta(oldPos, m)),
                                         YDelta(oldPos, m))]

MouseMovePressed(s, m) ==
    LET oldPos == GetPos(s.mouse)
    IN  [s EXCEPT !.camera = OrbitUpDown(OrbitLeftRight(@, XDelta(oldPos, m)),
                                         YDelta(oldPos, m)),
                  !.mouse = SetPos(@, m.X, m.Y)]

(* Variant of MouseMoveCase without the test of the pressed flag.          *)
MouseMoveCaseNoGuard(s, m) == MouseMovePressed(s, m)

MouseMoveCase(s, m) == IF ~GetPressed(s.mouse) THEN s ELSE MouseMovePressed(s, m)

ZoomCase(s, m) == [s EXCEPT !.camera = Zoom(@, m.Num)]

(* Variant of PropertyCase whose UseRefraction case writes UseReflection.  *)
PropertyCaseCopyPaste(s, m) ==
    CASE m.type = "SetReflectivity" -> [s EXCEPT !.water.Reflectivity = m.Num]
      [] m.type = "SetFresnel" -> [s EXCEPT !.water.FresnelStrength = m.Num]
      [] m.type = "SetWaveSpeed" -> [s EXCEPT !.water.WaveSpeed = m.Num]
      [] m.type = "UseReflection" -> [s EXCEPT !.water.UseReflection = m.Flag]
      [] m.type = "UseRefraction" -> [s EXCEPT !.water.UseReflection = m.Flag]
      [] m.type = "ShowScenery" -> [s EXCEPT !.scenery = m.Flag]

PropertyCase(s, m) ==
    CASE m.type = "SetReflectivity" -> [s EXCEPT !.water.Reflectivity = m.Num]
      [] m.type = "SetFresnel" -> [s EXCEPT !.water.FresnelStrength = m.Num]
      [] m.type = "SetWaveSpeed" -> [s EXCEPT !.water.WaveSpeed = m.Num]
      [] m.type = "UseReflection" -> [s EXCEPT !.water.UseReflection = m.Flag]
      [] m.type = "UseRefraction" -> [s EXCEPT !.water.UseRefraction = m.Flag]
      [] m.type = "ShowScenery" -> [s EXCEPT !.scenery = m.Flag]

Update(s, m) ==
    CASE m.type = "AdvanceClock" -> AdvanceClockCase(s, m)
      [] m.type = "MouseDown" -> MouseDownCase(s, m)
      [] m.type = "MouseUp" -> MouseUpCase(s)
      [] m.type = "MouseMove" -> MouseMoveCase(s, m)
      [] m.type = "Zoom" -> ZoomCase(s, m)
      [] m.type \in PropertyTypes -> PropertyCase(s, m)
      [] OTHER -> s

----------------------------------------------------------------------------
(* Spec: the reducer driven by any sequence of messages.                   *)

Goroutines == {"g1", "g2"}

NewRWMutex == [w |-> "none", writing |-> FALSE, readers |-> {}]

LockInit ==
    /\ mu = NewRWMutex
    /\ pc = [g \in Goroutines |-> "idle"]
    /\ cur = [g \in Goroutines |-> NoMsg]
    /\ old = [g \in Goroutines |-> [x |-> 0, y |-> 0]]
    /\ before = [g \in Goroutines |-> NewState]
    /\ applied = <<>>
    /\ snap = [g \in Goroutines |-> <<>>]

Conns == 1..NumConns

ServerInit ==
    /\ clients = {}
    /\ closed = {}
    /\ hpc = [c \in Conns |-> "new"]
    /\ tpc = "wait"
    /\ tconn = 0
    /\ todo = {}
    /\ ticks = 0
    /\ pushed = [c \in Conns |-> 0]
    /\ atStart = {}
    /\ removed = {}

NoValue == <<>>

NoMesh == [Name |-> "none"]

LibInit ==
    /\ cam = NewCamera
    /\ calls = 0
    /\ fn = "none"
    /\ arg = NoValue
    /\ out = NoValue
    /\ mesh = NoMesh
    /\ mpc = "idle"

Init ==
    /\ appState = NewState
    /\ last = NoMsg
    /\ nmsgs = 0
    /\ LockInit
    /\ ServerInit
    /\ LibInit

Reduce(m) ==
    /\ appState' = Update(appState, m)
    /\ last' = m
    /\ nmsgs' = nmsgs + 1
    /\ UNCHANGED <<libVars, lockVars, serverVars>>

AdvanceClockMessage ==
    /\ nmsgs < MaxMsgs
    /\ \E m \in Messages : m.type = "AdvanceClock" /\ Reduce(m)

MouseDownMessage ==
    /\ nmsgs < MaxMsgs
    /\ \E m \in Messages : m.type = "MouseDown" /\ Reduce(m)

MouseUpMessage ==
    /\ nmsgs < MaxMsgs
    /\ \E m \in Messages : m.type = "MouseUp" /\ Reduce(m)

MouseMoveMessage ==
    /\ nmsgs < MaxMsgs
    /\ \E m \in Messages : m.type = "MouseMove" /\ Reduce(m)

ZoomMessage ==
    /\ nmsgs < MaxMsgs
    /\ \E m \in Messages : m.type = "Zoom" /\ Reduce(m)

SetReflectivityMessage ==
    /\ nmsgs < MaxMsgs
    /\ \E m \in Messages : m.type = "SetReflectivity" /\ Reduce(m)

SetFresnelMessage ==
    /\ nmsgs < MaxMsgs
    /\ \E m \in Messages : m.type = "SetFresnel" /\ Reduce(m)

SetWaveSpeedMessage ==
    /\ nmsgs < MaxMsgs
    /\ \E m \in Messages : m.type = "SetWaveSpeed" /\ Reduce(m)

UseReflectionMessage ==
    /\ nmsgs < MaxMsgs
    /\ \E m \in Messages : m.type = "UseReflection" /\ Reduce(m)

UseRefractionMessage ==
    /\ nmsgs < MaxMsgs
    /\ \E m \in Messages : m.type = "UseRefraction" /\ Reduce(m)

ShowSceneryMessage ==
    /\ nmsgs < MaxMsgs
    /\ \E m \in Messages : m.type = "ShowScenery" /\ Reduce(m)

UnhandledMessage ==
    /\ nmsgs < MaxMsgs
    /\ \E m \in Messages : m.type \in UnhandledTypes /\ Reduce(m)

Next ==
    \/ AdvanceClockMessage
    \/ MouseDownMessage
    \/ MouseUpMessage
    \/ MouseMoveMessage
    \/ ZoomMessage
    \/ SetReflectivityMessage
    \/ SetFresnelMessage
    \/ SetWaveSpeedMessage
    \/ UseReflectionMessage
    \/ UseRefractionMessage
    \/ ShowSceneryMessage
    \/ UnhandledMessage

Spec == Init /\ [][Next]_vars

----------------------------------------------------------------------------
(* Properties of the reducer, checked under Spec.                          *)

Clamp(v, lo, hi) == IF v < lo THEN lo ELSE IF v > hi THEN hi ELSE v

camera == appState.camera

C4_PressedMouseMove ==
    [][(/\ last'.type = "MouseMove"
        /\ appState.mouse.pressed
        /\ Fits32(appState.mouse.x - last'.X)
        /\ Fits32(last'.Y - appState.mouse.y)) =>
         /\ appState'.camera.yaw = camera.yaw + (appState.mouse.x - last'.X)
         /\ appState'.camera.pitch =
                Clamp(camera.pitch + (last'.Y - appState.mouse.y), MinPitch, MaxPitch)
         /\ appState'.mouse = [x |-> last'.X, y |-> last'.Y, pressed |-> TRUE]
         /\ appState'.camera.distance = camera.distance
         /\ appState'.clock = appState.clock
         /\ appState'.water = appState.water
         /\ appState'.scenery = appState.scenery]_vars

C4_Witness ==
    /\ last.type = "MouseMove" /\ appState.mouse.pressed
    /\ camera.yaw = -30 /\ camera.pitch = DefaultPitch + 40
    /\ appState.mouse.x = 30 /\ appState.mouse.y = 40

(* C5: a mouse-move reduced while the pressed flag is false changes no     *)
(* field of the application state.                                         *)
C5_UnpressedMouseMoveNoOp ==
    [][last'.type = "MouseMove" /\ ~appState.mouse.pressed
         => appState' = appState]_vars

C5_Witness ==
    /\ last.type = "MouseMove" /\ last.X = 30 /\ ~appState.mouse.pressed
    /\ appState.mouse.x = 0

(* C7: a property-set message writes exactly one field, the water field    *)
(* (or the scenery flag) it names, with the message value unmodified, and  *)
(* leaves every other water field, the camera, the mouse and the clock.    *)
FieldOf(t) ==
    CASE t = "SetReflectivity" -> "Reflectivity"
      [] t = "SetFresnel" -> "FresnelStrength"
      [] t = "SetWaveSpeed" -> "WaveSpeed"
      [] t = "UseReflection" -> "UseReflection"
      [] t = "UseRefraction" -> "UseRefraction"
      [] OTHER -> "scenery"

ValueOf(m) == IF m.type \in FloatTypes THEN m.Num ELSE m.Flag

C7_PropertySetWritesOneField ==
    [][last'.type \in PropertyTypes =>
         /\ \A f \in DOMAIN appState.water :
                appState'.water[f] =
                    IF f = FieldOf(last'.type) THEN ValueOf(last') ELSE appState.water[f]
         /\ appState'.scenery =
                IF last'.type = "ShowScenery" THEN last'.Flag ELSE appState.scenery
         /\ appState'.camera = appState.camera
         /\ appState'.mouse = appState.mouse
         /\ appState'.clock = appState.clock]_vars

C7_Witness ==
    /\ last.type = "UseRefraction" /\ ~last.Flag
    /\ ~appState.water.UseRefraction /\ appState.water.UseReflection
    /\ appState.water.Reflectivity = 250 /\ appState.water.WaveSpeed = -100

(* C8 as stated: over any sequence of reducer messages the clock never     *)
(* decreases, only advance-clock messages change it, and each adds its     *)
(* delta.                                                                  *)
C8_ClockMonotonic ==
    [][/\ appState'.clock >= appState.clock
       /\ (last'.type # "AdvanceClock" => appState'.clock = appState.clock)
       /\ (last'.type = "AdvanceClock" => appState'.clock = appState.clock + last'.Num)]_vars

(* C8 amended: only advance-clock messages change the clock, each adds     *)
(* exactly its delta, and the clock does not decrease in a step whose      *)
(* delta is not negative.                                                  *)
C8_ClockAdvancesByDelta ==
    [][/\ (last'.type # "AdvanceClock" => appState'.clock = appState.clock)
       /\ (last'.type = "AdvanceClock" => appState'.clock = appState.clock + last'.Num)
       /\ (last'.type = "AdvanceClock" /\ last'.Num >= 0
             => appState'.clock >= appState.clock)]_vars

C8_Witness ==
    /\ last.type = "AdvanceClock" /\ last.Num = 16
    /\ appState.clock = 32

(* C14: zooming out can raise the camera distance up to 150 units: from    *)
(* the default camera some sequence of positive zoom messages reaches       *)
(* distance 150.                                                            *)
ZoomOutDeltas == {d \in ZoomDeltas : d > 0} \cup {ReadmeZoomLimit - DefaultDistance}

ZoomOutSeqs == UNION {[1..n -> ZoomOutDeltas] : n \in 1..MaxMsgs}

RECURSIVE ReduceAll(_, _)
ReduceAll(s, deltas) ==
    IF deltas = <<>> THEN s
    ELSE ReduceAll(Update(s, Msg("Zoom", 0, 0, Head(deltas), FALSE)), Tail(deltas))

C14_ZoomOutReaches150 ==
    camera = NewCamera =>
        \E deltas \in ZoomOutSeqs :
            ReduceAll(appState, deltas).camera.distance = ReadmeZoomLimit

----------------------------------------------------------------------------
(* SpecLock: goroutines calling State.Update and taking state snapshots    *)
(* (sendStateUpdate, handleGetState) concurrently, one statement per step. *)
(*                                                                         *)
(* sync.RWMutex: mu.w is the goroutine that holds the writer mutex (a      *)
(* writer that has announced itself, waiting for the readers to leave or   *)
(* writing), mu.writing says that it has the exclusive lock, mu.readers    *)
(* are the goroutines holding the shared lock.  A reader is not admitted   *)
(* while a writer has announced itself.                                    *)

LockMessages ==
    {Msg("AdvanceClock", 0, 0, 16, FALSE),
     Msg("MouseDown", 30, 40, 0, FALSE),
     Msg("MouseMove", 0, 10 * PixelsPerRadian, 0, FALSE),
     Msg("Zoom", 0, 0, 100, FALSE),
     Msg("SetReflectivity", 0, 0, 250, FALSE),
     Msg("Unknown", 0, 0, 0, FALSE),
     Msg("Nil", 0, 0, 0, FALSE)}

Getters == <<"GetCamera", "GetWater", "GetClock", "GetScenery">>

GetterValue(s, name) ==
    CASE name = "GetCamera" -> s.camera
      [] name = "GetWater" -> s.water
      [] name = "GetClock" -> s.clock
      [] name = "GetScenery" -> s.scenery

InUpdate == {"Switch", "MouseDownSetPos", "OrbitLeftRight", "OrbitUpDown",
             "ClampPitch", "MouseMoveSetPos", "ClampDistance", "Unlock"}

InGetter == {"Read", "RUnlock"}

Goto(g, label) == pc' = [pc EXCEPT ![g] = label]

(* Update is called: line 63.                                              *)
UpdateCall(g, m) ==
    /\ pc[g] = "idle"
    /\ nmsgs < MaxUpdates
    /\ Goto(g, "Lock")
    /\ cur' = [cur EXCEPT ![g] = m]
    /\ last' = m
    /\ nmsgs' = nmsgs + 1
    /\ UNCHANGED <<libVars, serverVars, appState, mu, old, before, applied, snap>>

(* s.mu.Lock(), line 64: take the writer mutex, which keeps new readers    *)
(* and other writers out ...                                               *)
(* Variant of UpdateLock that takes the shared lock (RLock).                *)
UpdateLockShared(g) ==
    /\ pc[g] = "Lock"
    /\ mu.w = "none"
    /\ mu' = [mu EXCEPT !.readers = @ \cup {g}]
    /\ before' = [before EXCEPT ![g] = appState]
    /\ applied' = Append(applied, cur[g])
    /\ Goto(g, "Switch")
    /\ UNCHANGED <<libVars, serverVars, appState, last, nmsgs, cur, old, snap>>

UpdateLock(g) ==
    /\ pc[g] = "Lock"
    /\ mu.w = "none"
    /\ mu' = [mu EXCEPT !.w = g]
    /\ Goto(g, "LockWait")
    /\ UNCHANGED <<libVars, serverVars, appState, last, nmsgs, cur, old, before, applied, snap>>

(* ... then wait until the readers inside have left.                       *)
UpdateLockAcquire(g) ==
    /\ pc[g] = "LockWait"
    /\ mu.readers = {}
    /\ mu' = [mu EXCEPT !.writing = TRUE]
    /\ before' = [before EXCEPT ![g] = appState]
    /\ applied' = Append(applied, cur[g])
    /\ Goto(g, "Switch")
    /\ UNCHANGED <<libVars, serverVars, appState, last, nmsgs, cur, old, snap>>

(* The type switch, line 67, and the first statement of the case taken.    *)
(* Variant of SwitchState with a default arm that releases the mouse.      *)
SwitchStateDefaultArm(s, m) ==
    CASE m.type = "AdvanceClock" -> AdvanceClockCase(s, m)
      [] m.type = "MouseDown" -> [s EXCEPT !.mouse = SetPressed(@, TRUE)]
      [] m.type = "MouseUp" -> MouseUpCase(s)
      [] m.type = "MouseMove" -> s
      [] m.type = "Zoom" -> [s EXCEPT !.camera = AddDistance(@, m.Num)]
      [] m.type \in PropertyTypes -> PropertyCase(s, m)
      [] OTHER -> MouseUpCase(s)

SwitchState(s, m) ==
    CASE m.type = "AdvanceClock" -> AdvanceClockCase(s, m)
      [] m.type = "MouseDown" -> [s EXCEPT !.mouse = SetPressed(@, TRUE)]
      [] m.type = "MouseUp" -> MouseUpCase(s)
      [] m.type = "Zoom" -> [s EXCEPT !.camera = AddDistance(@, m.Num)]
      [] m.type \in PropertyTypes -> PropertyCase(s, m)
      [] OTHER -> s

(* Variant of SwitchGoto whose early return of a mouse-move while not      *)
(* pressed leaves Update without running the Unlock.                       *)
SwitchGotoEarlyReturn(s, m) ==
    CASE m.type = "MouseDown" -> "MouseDownSetPos"
      [] m.type = "MouseMove" -> IF ~GetPressed(s.mouse) THEN "idle" ELSE "OrbitLeftRight"
      [] m.type = "Zoom" -> "ClampDistance"
      [] OTHER -> "Unlock"

SwitchGoto(s, m) ==
    CASE m.type = "MouseDown" -> "MouseDownSetPos"
      [] m.type = "MouseMove" -> IF ~GetPressed(s.mouse) THEN "Unlock" ELSE "OrbitLeftRight"
      [] m.type = "Zoom" -> "ClampDistance"
      [] OTHER -> "Unlock"

Switch(g) ==
    /\ pc[g] = "Switch"
    /\ appState' = SwitchState(appState, cur[g])
    /\ Goto(g, SwitchGoto(appState, cur[g]))
    /\ old' = [old EXCEPT ![g] = IF cur[g].type = "MouseMove" /\ GetPressed(appState.mouse)
                                 THEN GetPos(appState.mouse) ELSE @]
    /\ UNCHANGED <<libVars, serverVars, last, nmsgs, mu, cur, before, applied, snap>>

(* s.mouse.SetPos(m.X, m.Y), line 72.                                      *)
MouseDownSetPos(g) ==
    /\ pc[g] = "MouseDownSetPos"
    /\ appState' = [appState EXCEPT !.mouse = SetPos(@, cur[g].X, cur[g].Y)]
    /\ Goto(g, "Unlock")
    /\ UNCHANGED <<libVars, serverVars, last, nmsgs, mu, cur, old, before, applied, snap>>

(* s.camera.OrbitLeftRight(xDelta / 50.0), line 83.                        *)
MouseMoveOrbitLeftRight(g) ==
    /\ pc[g] = "OrbitLeftRight"
    /\ appState' = [appState EXCEPT !.camera = OrbitLeftRight(@, XDelta(old[g], cur[g]))]
    /\ Goto(g, "OrbitUpDown")
    /\ UNCHANGED <<libVars, serverVars, last, nmsgs, mu, cur, old, before, applied, snap>>

(* s.camera.OrbitUpDown(yDelta / 50.0), line 84: c.pitch += delta ...      *)
MouseMoveOrbitUpDown(g) ==
    /\ pc[g] = "OrbitUpDown"
    /\ appState' = [appState EXCEPT !.camera = AddPitch(@, YDelta(old[g], cur[g]))]
    /\ Goto(g, "ClampPitch")
    /\ UNCHANGED <<libVars, serverVars, last, nmsgs, mu, cur, old, before, applied, snap>>

(* ... and its clamping, lines 153-158.                                    *)
MouseMoveClampPitch(g) ==
    /\ pc[g] = "ClampPitch"
    /\ appState' = [appState EXCEPT !.camera = ClampPitch(@)]
    /\ Goto(g, "MouseMoveSetPos")
    /\ UNCHANGED <<libVars, serverVars, last, nmsgs, mu, cur, old, before, applied, snap>>

(* s.mouse.SetPos(m.X, m.Y), line 85.                                      *)
MouseMoveSetPos(g) ==
    /\ pc[g] = "MouseMoveSetPos"
    /\ appState' = [appState EXCEPT !.mouse = SetPos(@, cur[g].X, cur[g].Y)]
    /\ Goto(g, "Unlock")
    /\ UNCHANGED <<libVars, serverVars, last, nmsgs, mu, cur, old, before, applied, snap>>

(* The clamping of Camera.Zoom, lines 164-169.                             *)
ZoomClampDistance(g) ==
    /\ pc[g] = "ClampDistance"
    /\ appState' = [appState EXCEPT !.camera = ClampDistance(@)]
    /\ Goto(g, "Unlock")
    /\ UNCHANGED <<libVars, serverVars, last, nmsgs, mu, cur, old, before, applied, snap>>

(* The deferred s.mu.Unlock(), line 65, run when Update returns.           *)
UpdateUnlock(g) ==
    /\ pc[g] = "Unlock"
    /\ mu' = [mu EXCEPT !.w = "none", !.writing = FALSE]
    /\ Goto(g, "idle")
    /\ UNCHANGED <<libVars, serverVars, appState, last, nmsgs, cur, old, before, applied, snap>>

(* sendStateUpdate / handleGetState: four getters, then the write.         *)
SnapshotCall(g) ==
    /\ pc[g] = "idle"
    /\ Goto(g, "RLock")
    /\ snap' = [snap EXCEPT ![g] = <<>>]
    /\ UNCHANGED <<libVars, serverVars, appState, last, nmsgs, mu, cur, old, before, applied>>

(* s.mu.RLock() of a getter.                                               *)
GetterRLock(g) ==
    /\ pc[g] = "RLock"
    /\ mu.w = "none"
    /\ mu' = [mu EXCEPT !.readers = @ \cup {g}]
    /\ Goto(g, "Read")
    /\ UNCHANGED <<libVars, serverVars, appState, last, nmsgs, cur, old, before, applied, snap>>

(* The getter's return expression: the value is copied out.                *)
GetterRead(g) ==
    /\ pc[g] = "Read"
    /\ snap' = [snap EXCEPT ![g] = Append(@, GetterValue(appState, Getters[Len(@) + 1]))]
    /\ Goto(g, "RUnlock")
    /\ UNCHANGED <<libVars, serverVars, appState, last, nmsgs, mu, cur, old, before, applied>>

(* The getter's deferred s.mu.RUnlock().                                   *)
(* Variant of GetterRUnlock that returns without releasing.                *)
GetterKeepsRLock(g) ==
    /\ pc[g] = "RUnlock"
    /\ Goto(g, IF Len(snap[g]) = Len(Getters) THEN "Write" ELSE "RLock")
    /\ UNCHANGED <<libVars, serverVars, appState, last, nmsgs, mu, cur, old, before, applied, snap>>

GetterRUnlock(g) ==
    /\ pc[g] = "RUnlock"
    /\ mu' = [mu EXCEPT !.readers = @ \ {g}]
    /\ Goto(g, IF Len(snap[g]) = Len(Getters) THEN "Write" ELSE "RLock")
    /\ UNCHANGED <<libVars, serverVars, appState, last, nmsgs, cur, old, before, applied, snap>>

(* conn.WriteJSON(stateUpdate) / json.NewEncoder(w).Encode(response):      *)
(* serialization and the network write.                                    *)
SnapshotWrite(g) ==
    /\ pc[g] = "Write"
    /\ Goto(g, "idle")
    /\ snap' = [snap EXCEPT ![g] = <<>>]
    /\ UNCHANGED <<libVars, serverVars, appState, last, nmsgs, mu, cur, old, before, applied>>

UpdateStep(g) ==
    \/ Switch(g)
    \/ MouseDownSetPos(g)
    \/ MouseMoveOrbitLeftRight(g)
    \/ MouseMoveOrbitUpDown(g)
    \/ MouseMoveClampPitch(g)
    \/ MouseMoveSetPos(g)
    \/ ZoomClampDistance(g)
    \/ UpdateUnlock(g)

LockStep(g) ==
    \/ \E m \in LockMessages : UpdateCall(g, m)
    \/ UpdateLock(g)
    \/ UpdateLockAcquire(g)
    \/ UpdateStep(g)
    \/ SnapshotCall(g)
    \/ GetterRLock(g)
    \/ GetterRead(g)
    \/ GetterRUnlock(g)
    \/ SnapshotWrite(g)

NextLock == \E g \in Goroutines : LockStep(g)

SpecLock == Init /\ [][NextLock]_vars

----------------------------------------------------------------------------
(* Properties of the lock discipline, checked under SpecLock.              *)

RECURSIVE ApplyAll(_, _)
ApplyAll(s, msgs) ==
    IF msgs = <<>> THEN s ELSE ApplyAll(Update(s, Head(msgs)), Tail(msgs))

Holds(g) == mu.w = g \/ g \in mu.readers

(* C1: every message is reduced atomically.  A goroutine inside Update     *)
(* holds the exclusive lock from the type switch to the return, no other   *)
(* goroutine is inside Update or inside a getter meanwhile, a getter       *)
(* reads only states in which every acquired Update is applied in full,    *)
(* and the state equals the messages applied one at a time in the order    *)
(* in which their Updates took the lock.                                   *)
C1_UpdateAtomic ==
    /\ \A g \in Goroutines :
          pc[g] \in InUpdate =>
              /\ mu.w = g /\ mu.writing /\ mu.readers = {}
              /\ \A h \in Goroutines \ {g} : pc[h] \notin (InUpdate \cup InGetter)
    /\ \A g \in Goroutines :
          pc[g] = "Unlock" => appState = Update(before[g], cur[g])
    /\ \A g \in Goroutines :
          pc[g] \in InGetter => appState = ApplyAll(NewState, applied)
    /\ (\A g \in Goroutines : pc[g] \notin (InUpdate \ {"Unlock"}))
          => appState = ApplyAll(NewState, applied)

C1_Witness ==
    /\ pc["g1"] = "MouseMoveSetPos" /\ pc["g2"] = "RLock"
    /\ Len(snap["g2"]) = 1
    /\ appState.camera.pitch = MaxPitch /\ appState.mouse.y = 40

(* C6: reducing a message of no handled type, or the nil message, changes  *)
(* no field of the application state, does not block, and Update returns   *)
(* with the lock released.                                                 *)
C6_UnhandledStep ==
    \A g \in Goroutines :
        (cur[g].type \in UnhandledTypes /\ pc[g] \in {"Switch", "Unlock"}) =>
            /\ appState' = appState
            /\ (pc[g] = "Switch" /\ pc'[g] # pc[g] => pc'[g] = "Unlock")
            /\ (pc[g] = "Unlock" /\ pc'[g] # pc[g]
                  => pc'[g] = "idle" /\ mu'.w = "none" /\ ~mu'.writing)

C6_UnhandledIgnored ==
    /\ [](\A g \in Goroutines :
             cur[g].type \in UnhandledTypes =>
                 /\ (pc[g] \in {"Switch", "Unlock"} => ENABLED UpdateStep(g))
                 /\ (pc[g] = "idle" => ~Holds(g)))
    /\ [][C6_UnhandledStep]_vars

C6_Witness ==
    /\ cur["g1"].type = "MouseDown" /\ pc["g1"] = "idle"
    /\ cur["g2"].type = "Nil" /\ pc["g2"] = "Unlock"
    /\ appState.mouse.pressed

(* C9: the state lock is never held across I/O.  A goroutine at its write  *)
(* (conn.WriteJSON, the JSON response) holds neither the shared nor the    *)
(* exclusive lock, and no step inside Update's critical section blocks.    *)
C9_NoLockAcrossIO ==
    /\ \A g \in Goroutines : pc[g] = "Write" => ~Holds(g)
    /\ \A g \in Goroutines : pc[g] \in InUpdate => ENABLED UpdateStep(g)
    /\ \A g \in Goroutines : Holds(g) <=> pc[g] \in ({"LockWait"} \cup InUpdate \cup InGetter)

C9_Witness ==
    /\ pc["g1"] = "Write" /\ Len(snap["g1"]) = 4
    /\ pc["g2"] = "Unlock" /\ cur["g2"].type = "Zoom"

----------------------------------------------------------------------------
(* SpecServer: the timer goroutine (startStateUpdates: clock advance and   *)
(* broadcast) and one handleWebSocket goroutine per connection.  A push    *)
(* (sendStateUpdate) is a step that starts the write and a step in which   *)
(* the write returns, with or without an error.  The timer measures the   *)
(* period of its ticker as the elapsed time of every tick.  Every access   *)
(* to the clients map (insert, delete, len, one turn of the range) is one  *)
(* step; the map is not guarded by any lock.                               *)

TickDeltas == {TickMillis}

Ranging == tpc \in {"range", "write", "delete", "close"}

(* One turn of "for range ticker.C": lines 100-105, the clock advance.     *)
TimerTick(d) ==
    /\ tpc = "wait"
    /\ ticks < MaxTicks
    /\ ticks' = ticks + 1
    /\ appState' = Update(appState, Msg("AdvanceClock", 0, 0, d, FALSE))
    /\ tpc' = "broadcast"
    /\ UNCHANGED <<libVars, notServer, clients, closed, hpc, tconn, todo, pushed, atStart, removed>>

(* broadcastStateUpdate, lines 400-404: return when there is no client,    *)
(* else start the range over the clients.                                  *)
TimerBroadcast ==
    /\ tpc = "broadcast"
    /\ tpc' = IF clients = {} THEN "wait" ELSE "range"
    /\ todo' = clients
    /\ atStart' = clients
    /\ pushed' = [c \in Conns |-> 0]
    /\ UNCHANGED <<libVars, notServer, appState, clients, closed, hpc, tconn, ticks, removed>>

(* The range produces its next entry and sendStateUpdate(conn) starts,     *)
(* lines 404-405.                                                          *)
TimerRangeNext(c) ==
    /\ tpc = "range"
    /\ c \in todo
    /\ tconn' = c
    /\ todo' = todo \ {c}
    /\ pushed' = [pushed EXCEPT ![c] = @ + 1]
    /\ tpc' = "write"
    /\ UNCHANGED <<libVars, notServer, appState, clients, closed, hpc, ticks, atStart, removed>>

(* The range is exhausted and broadcastStateUpdate returns.                *)
TimerRangeDone ==
    /\ tpc = "range"
    /\ todo = {}
    /\ tpc' = "wait"
    /\ UNCHANGED <<libVars, notServer, appState, clients, closed, hpc, tconn, todo, ticks, pushed, atStart,
                   removed>>

(* conn.WriteJSON returns, line 429 and the test of line 405.  A write on  *)
(* a closed connection fails; any write may fail.                          *)
TimerPushEnd(ok) ==
    /\ tpc = "write"
    /\ ok => tconn \notin closed
    /\ tpc' = IF ok THEN "range" ELSE "delete"
    /\ removed' = IF ok THEN removed ELSE removed \cup {tconn}
    /\ UNCHANGED <<libVars, notServer, appState, clients, closed, hpc, tconn, todo, ticks, pushed, atStart>>

(* delete(s.clients, conn), line 407.                                      *)
(* Variant of TimerDelete that leaves the entry in the map.                *)
TimerDeleteSkipped ==
    /\ tpc = "delete"
    /\ tpc' = "close"
    /\ UNCHANGED <<libVars, notServer, appState, clients, closed, hpc, tconn, todo, ticks, pushed, atStart,
                   removed>>

TimerDelete ==
    /\ tpc = "delete"
    /\ clients' = clients \ {tconn}
    /\ todo' = todo \ {tconn}
    /\ tpc' = "close"
    /\ UNCHANGED <<libVars, notServer, appState, closed, hpc, tconn, ticks, pushed, atStart, removed>>

(* conn.Close(), line 408; the loop goes on with the next entry.           *)
TimerClose ==
    /\ tpc = "close"
    /\ closed' = closed \cup {tconn}
    /\ tpc' = "range"
    /\ UNCHANGED <<libVars, notServer, appState, clients, hpc, tconn, todo, ticks, pushed, atStart, removed>>

HGoto(c, label) == hpc' = [hpc EXCEPT ![c] = label]

(* handleWebSocket, lines 370-375: the upgrade succeeds or fails.          *)
HandlerUpgrade(c, ok) ==
    /\ hpc[c] = "new"
    /\ HGoto(c, IF ok THEN "register" ELSE "done")
    /\ UNCHANGED <<libVars, notServer, appState, clients, closed, tpc, tconn, todo, ticks, pushed, atStart,
                   removed>>

(* s.clients[conn] = true, line 378.  An entry created while the timer     *)
(* ranges over the map may be produced by that range or skipped.           *)
HandlerRegister(c, produced) ==
    /\ hpc[c] = "register"
    /\ clients' = clients \cup {c}
    /\ todo' = IF Ranging /\ produced THEN todo \cup {c} ELSE todo
    /\ HGoto(c, "initial")
    /\ UNCHANGED <<libVars, notServer, appState, closed, tpc, tconn, ticks, pushed, atStart, removed>>

(* s.sendStateUpdate(conn), line 384: the initial push starts ...          *)
HandlerInitialPush(c) ==
    /\ hpc[c] = "initial"
    /\ HGoto(c, "initialWrite")
    /\ UNCHANGED <<libVars, notServer, appState, clients, closed, tpc, tconn, todo, ticks, pushed, atStart,
                   removed>>

(* ... and returns; its error is ignored.                                  *)
HandlerInitialPushEnd(c) ==
    /\ hpc[c] = "initialWrite"
    /\ HGoto(c, "read")
    /\ UNCHANGED <<libVars, notServer, appState, clients, closed, tpc, tconn, todo, ticks, pushed, atStart,
                   removed>>

(* conn.ReadMessage() returns an error (the peer left, the connection was  *)
(* closed, a network error), lines 388-391: the loop is left.              *)
HandlerReadError(c) ==
    /\ hpc[c] = "read"
    /\ HGoto(c, "deregister")
    /\ UNCHANGED <<libVars, notServer, appState, clients, closed, tpc, tconn, todo, ticks, pushed, atStart,
                   removed>>

(* The deferred delete(s.clients, conn), line 379.                         *)
HandlerDeregister(c) ==
    /\ hpc[c] = "deregister"
    /\ clients' = clients \ {c}
    /\ todo' = todo \ {c}
    /\ HGoto(c, "close")
    /\ UNCHANGED <<libVars, notServer, appState, closed, tpc, tconn, ticks, pushed, atStart, removed>>

(* The deferred conn.Close(), line 375.                                    *)
HandlerClose(c) ==
    /\ hpc[c] = "close"
    /\ closed' = closed \cup {c}
    /\ HGoto(c, "done")
    /\ UNCHANGED <<libVars, notServer, appState, clients, tpc, tconn, todo, ticks, pushed, atStart, removed>>

TimerStep ==
    \/ \E d \in TickDeltas : TimerTick(d)
    \/ TimerBroadcast
    \/ \E c \in Conns : TimerRangeNext(c)
    \/ TimerRangeDone
    \/ \E ok \in BOOLEAN : TimerPushEnd(ok)
    \/ TimerDelete
    \/ TimerClose

HandlerStep(c) ==
    \/ \E ok \in BOOLEAN : HandlerUpgrade(c, ok)
    \/ \E produced \in BOOLEAN : HandlerRegister(c, produced)
    \/ HandlerInitialPush(c)
    \/ HandlerInitialPushEnd(c)
    \/ HandlerReadError(c)
    \/ HandlerDeregister(c)
    \/ HandlerClose(c)

NextServer == TimerStep \/ \E c \in Conns : HandlerStep(c)

SpecServer == Init /\ [][NextServer]_vars

----------------------------------------------------------------------------
(* Properties of the broadcast, checked under SpecServer.                  *)

(* C10: a subscriber whose broadcast push failed is removed from the       *)
(* subscriber set and its connection is closed; no subscriber is pushed    *)
(* to twice in one broadcast; the subscribers that stay registered for     *)
(* the whole broadcast are each pushed to, whatever failed before them;    *)
(* and no broadcast pushes to a removed subscriber.                        *)
C10_FailedPushRemoves ==
    /\ \A c \in removed :
          /\ c \notin clients \/ (tpc = "delete" /\ tconn = c)
          /\ c \in closed \/ (tpc \in {"delete", "close"} /\ tconn = c)
    /\ \A c \in Conns : pushed[c] <= 1
    /\ tpc = "write" => tconn \notin removed
    /\ tpc = "wait" => \A c \in atStart \cap clients : pushed[c] = 1

C10_Witness ==
    /\ tpc = "wait" /\ ticks = 2
    /\ removed = {1} /\ 1 \in closed /\ hpc[1] = "read"
    /\ clients = {2} /\ atStart = {2}
    /\ pushed[1] = 0 /\ pushed[2] = 1

----------------------------------------------------------------------------
(* SpecServerFair: SpecServer with the scheduling the timer goroutine can   *)
(* count on.  The Go scheduler runs a runnable goroutine and the ticker     *)
(* fires every period, so every step the timer takes by itself is taken    *)
(* when it stays possible.  The return of conn.WriteJSON (line 429) is not  *)
(* such a step: the connection has no write deadline, so the write returns  *)
(* when the consumer's side takes the bytes or the connection breaks; on a  *)
(* connection that has been closed it returns an error at once.             *)

TimerPushOnClosed == tconn \in closed /\ TimerPushEnd(FALSE)

TimerProgress ==
    \/ \E d \in TickDeltas : TimerTick(d)
    \/ TimerBroadcast
    \/ \E c \in Conns : TimerRangeNext(c)
    \/ TimerRangeDone
    \/ TimerDelete
    \/ TimerClose

(* The steps a handleWebSocket goroutine takes by itself; the arrival of a   *)
(* connection, the return of its write and the end of its read loop are     *)
(* the peer's.                                                              *)
HandlerProgress(c) ==
    \/ \E produced \in BOOLEAN : HandlerRegister(c, produced)
    \/ HandlerInitialPush(c)
    \/ HandlerDeregister(c)
    \/ HandlerClose(c)

SpecServerFair ==
    /\ SpecServer
    /\ WF_vars(TimerProgress)
    /\ WF_vars(TimerPushOnClosed)
    /\ \A c \in Conns : WF_vars(HandlerProgress(c))

(* C11: one slow consumer cannot stall the timer.  Whatever a push does,    *)
(* the timer goroutine comes back to its ticker again and again and        *)
(* handles every tick of the run (each advances the clock and starts a      *)
(* broadcast to the subscribers).                                           *)
C11_SlowConsumerCannotStall ==
    /\ []<>(tpc = "wait")
    /\ <>(ticks = MaxTicks)

----------------------------------------------------------------------------
(* SpecLockFair: SpecLock under fair scheduling.  A goroutine that can take *)
(* its next statement takes it (the Go scheduler runs every runnable        *)
(* goroutine); a goroutine blocked in Lock or RLock gets the lock when it   *)
(* becomes free again and again (sync.Mutex hands the lock to a waiter      *)
(* that has waited long, and a writer's Unlock admits the blocked readers). *)
(* The write of a snapshot is I/O and is not required to return.            *)

Acquire(g) == UpdateLock(g) \/ GetterRLock(g)

Running(g) ==
    \/ UpdateLockAcquire(g)
    \/ UpdateStep(g)
    \/ GetterRead(g)
    \/ GetterRUnlock(g)

FairMessages ==
    {Msg("MouseDown", 30, 40, 0, FALSE),
     Msg("MouseMove", 0, 10 * PixelsPerRadian, 0, FALSE),
     Msg("Zoom", 0, 0, 100, FALSE),
     Msg("Nil", 0, 0, 0, FALSE)}

LockStepFair(g) ==
    \/ \E m \in FairMessages : UpdateCall(g, m)
    \/ UpdateLock(g)
    \/ UpdateLockAcquire(g)
    \/ UpdateStep(g)
    \/ SnapshotCall(g)
    \/ GetterRLock(g)
    \/ GetterRead(g)
    \/ GetterRUnlock(g)
    \/ SnapshotWrite(g)

NextLockFair == \E g \in Goroutines : LockStepFair(g)

SpecLockFair ==
    /\ Init
    /\ [][NextLockFair]_vars
    /\ \A g \in Goroutines : WF_vars(Running(g)) /\ SF_vars(Acquire(g))

Waiting == {"Lock", "LockWait", "RLock"}

(* C12: every reduce step completes.  Every case of the switch, the early   *)
(* return of a mouse-move while not pressed included, continues inside      *)
(* Update; a goroutine inside Update reaches its return with the lock       *)
(* released; every Update and every getter waiting for the lock acquires    *)
(* it; and a goroutine waiting for the lock is never left with nobody able  *)
(* to take a step.                                                          *)
C12_UpdateCompletes ==
    /\ [](\A m \in Messages : SwitchGoto(appState, m) \in InUpdate)
    /\ \A g \in Goroutines :
          (pc[g] \in Waiting \cup InUpdate \cup InGetter)
              ~> (pc[g] \in {"idle", "Write"} /\ ~Holds(g))
    /\ []((\E g \in Goroutines : pc[g] \in Waiting)
            => \E h \in Goroutines : ENABLED (Acquire(h) \/ Running(h)))

C12_Witness ==
    /\ pc["g1"] = "Lock" /\ cur["g1"].type = "Zoom"
    /\ pc["g2"] = "Unlock" /\ cur["g2"].type = "MouseMove"
    /\ ~appState.mouse.pressed

----------------------------------------------------------------------------
(* SpecCamera: the methods of one Camera object called in any order.  A     *)
(* read (GetPosition, GetViewMatrix) runs updatePosition, which stores the  *)
(* recomputed position in the object, and returns.                          *)

YawDeltas == {-30, 30}

PitchDeltas == {40, 10 * PixelsPerRadian}

Called(name, a, r) ==
    /\ calls < MaxCalls
    /\ calls' = calls + 1
    /\ fn' = name
    /\ arg' = a
    /\ out' = r

CameraOrbitLeftRight(delta) ==
    /\ Called("OrbitLeftRight", delta, NoValue)
    /\ cam' = OrbitLeftRight(cam, delta)
    /\ UNCHANGED <<appState, notServer, serverVars, meshVars>>

CameraOrbitUpDown(delta) ==
    /\ Called("OrbitUpDown", delta, NoValue)
    /\ cam' = OrbitUpDown(cam, delta)
    /\ UNCHANGED <<appState, notServer, serverVars, meshVars>>

CameraZoom(delta) ==
    /\ Called("Zoom", delta, NoValue)
    /\ cam' = Zoom(cam, delta)
    /\ UNCHANGED <<appState, notServer, serverVars, meshVars>>

CameraGetPosition ==
    /\ Called("GetPosition", NoValue, updatePosition(cam).position)
    /\ cam' = updatePosition(cam)
    /\ UNCHANGED <<appState, notServer, serverVars, meshVars>>

CameraGetViewMatrix ==
    /\ Called("GetViewMatrix", NoValue,
              LookAt(updatePosition(cam).position, cam.target, cam.up))
    /\ cam' = updatePosition(cam)
    /\ UNCHANGED <<appState, notServer, serverVars, meshVars>>

NextCamera ==
    \/ \E delta \in YawDeltas : CameraOrbitLeftRight(delta)
    \/ \E delta \in PitchDeltas : CameraOrbitUpDown(delta)
    \/ \E delta \in ZoomDeltas : CameraZoom(delta)
    \/ CameraGetPosition
    \/ CameraGetViewMatrix

SpecCamera == Init /\ [][NextCamera]_vars

(* The position the camera has by its current yaw, pitch and distance:      *)
(* target + (distance*cos(pitch)*sin(yaw), distance*sin(pitch),             *)
(* distance*cos(pitch)*cos(yaw)).                                           *)
OrbitPosition(c) ==
    <<Plus(c.target[1], Times(Times(c.distance, Cos(c.pitch)), Sin(c.yaw))),
      Plus(c.target[2], Times(c.distance, Sin(c.pitch))),
      Plus(c.target[3], Times(Times(c.distance, Cos(c.pitch)), Cos(c.yaw)))>>

(* C13: the camera position is recomputed on every read.  After any         *)
(* sequence of OrbitLeftRight, OrbitUpDown and Zoom calls GetPosition       *)
(* returns the position of the current yaw, pitch and distance and          *)
(* GetViewMatrix returns LookAt of that position; the position stored at    *)
(* construction or by an earlier read is not returned in its place.         *)
C13_PositionRecomputed ==
    /\ fn = "GetPosition" =>
          /\ out = OrbitPosition(cam)
          /\ out # InitialPosition
    /\ fn = "GetViewMatrix" =>
          out = LookAt(OrbitPosition(cam), cam.target, cam.up)

C13_Witness ==
    /\ fn = "GetPosition" /\ calls = MaxCalls
    /\ cam.yaw = 30 /\ cam.distance = MaxDistance
    /\ out[1] = Plus(0, Times(Times(MaxDistance, Cos(DefaultPitch)), Sin(30)))

----------------------------------------------------------------------------
(* math3d.Vec3: a record of three float32.                                 *)

NewVec3(x, y, z) == [X |-> x, Y |-> y, Z |-> z]

Vec3Zero == NewVec3(RZero, RZero, RZero)

Vec3Sub(v, other) ==
    NewVec3(RSub(v.X, other.X), RSub(v.Y, other.Y), RSub(v.Z, other.Z))

Vec3CrossSwapped(v, other) ==
    NewVec3(RSub(RMul(other.Y, v.Z), RMul(other.Z, v.Y)),
            RSub(RMul(other.Z, v.X), RMul(other.X, v.Z)),
            RSub(RMul(other.X, v.Y), RMul(other.Y, v.X)))

Vec3Cross(v, other) ==
    NewVec3(RSub(RMul(v.Y, other.Z), RMul(v.Z, other.Y)),
            RSub(RMul(v.Z, other.X), RMul(v.X, other.Z)),
            RSub(RMul(v.X, other.Y), RMul(v.Y, other.X)))

Vec3Length(v) ==
    RSqrt(RAdd(RAdd(RMul(v.X, v.X), RMul(v.Y, v.Y)), RMul(v.Z, v.Z)))

Vec3NormalizeUnchecked(v) ==
    LET length == Vec3Length(v)
    IN  NewVec3(RDiv(v.X, length), RDiv(v.Y, length), RDiv(v.Z, length))

Vec3Normalize(v) ==
    LET length == Vec3Length(v)
    IN  IF length = RZero
        THEN Vec3Zero
        ELSE NewVec3(RDiv(v.X, length), RDiv(v.Y, length), RDiv(v.Z, length))

----------------------------------------------------------------------------
(* The grid mesh generators of the asset manager.  A Go slice is a         *)
(* sequence whose element k is at position k + 1.                          *)

At(slice, k) == slice[k + 1]

Put(slice, k, v) == [slice EXCEPT ![k + 1] = v]

Make(n) == [k \in 1..n |-> RZero]

MakeIndices(n) == [k \in 1..n |-> 0]

ToUint16(v) == v % TwoToThe(IndexBits)

VertexCount(segments) == (segments + 1) * (segments + 1)

TriangleCountPerCell(segments) == segments * segments

TriangleCount(segments) == segments * segments * 2

Step == F(2)

HalfSize(segments) == F(segments)

Slopes == {0, 4}

(* The locals of a generator after its four make calls.                    *)
Locals(name, segments, slope) ==
    [Name          |-> name,
     segments      |-> segments,
     slope         |-> slope,
     vertexCount   |-> VertexCount(segments),
     triangleCount |-> TriangleCount(segments),
     vertices      |-> Make(VertexCount(segments) * 3),
     normals       |-> Make(VertexCount(segments) * 3),
     texCoords     |-> Make(VertexCount(segments) * 2),
     indices       |-> MakeIndices(TriangleCount(segments) * 3),
     i             |-> 0,
     j             |-> 0,
     indexCount    |-> 0,
     written       |-> {}]

SetVertex(m, i, j, y) ==
    LET index     == i * (m.segments + 1) + j
        vertIndex == index * 3
        texIndex  == index * 2
        x         == RSub(RMul(F(j), Step), HalfSize(m.segments))
        z         == RSub(RMul(F(i), Step), HalfSize(m.segments))
    IN  [m EXCEPT
            !.vertices  = Put(Put(Put(@, vertIndex, x), vertIndex + 1, y),
                              vertIndex + 2, z),
            !.texCoords = Put(Put(@, texIndex, RDiv(F(j), F(m.segments))),
                              texIndex + 1, RDiv(F(i), F(m.segments)))]

SetNormalUp(m, i, j) ==
    LET vertIndex == (i * (m.segments + 1) + j) * 3
    IN  [m EXCEPT
            !.normals = Put(Put(Put(@, vertIndex, RZero), vertIndex + 1, ROne),
                            vertIndex + 2, RZero)]

RECURSIVE WaterVertexLoop(_, _, _)
WaterVertexLoop(m, i, j) ==
    IF i > m.segments THEN m
    ELSE IF j > m.segments THEN WaterVertexLoop(m, i + 1, 0)
    ELSE WaterVertexLoop(SetNormalUp(SetVertex(m, i, j, RZero), i, j), i, j + 1)

(* height = heightScale * (i+j) / (segments*2), in grid units.             *)
Height(m, i, j) == RMul(F(m.slope), F(i + j))

RECURSIVE TerrainVertexLoop(_, _, _)
TerrainVertexLoop(m, i, j) ==
    IF i > m.segments THEN m
    ELSE IF j > m.segments THEN TerrainVertexLoop(m, i + 1, 0)
    ELSE TerrainVertexLoop(SetVertex(m, i, j, RNeg(Height(m, i, j))), i, j + 1)

VertexAt(vertices, k) ==
    NewVec3(At(vertices, k * 3), At(vertices, k * 3 + 1), At(vertices, k * 3 + 2))

AddAt(normals, k, normal) ==
    Put(Put(Put(normals,
                k * 3,     RAdd(At(normals, k * 3),     normal.X)),
                k * 3 + 1, RAdd(At(normals, k * 3 + 1), normal.Y)),
                k * 3 + 2, RAdd(At(normals, k * 3 + 2), normal.Z))

(* The result of a call that stops with the runtime's index-out-of-range   *)
(* panic.                                                                  *)
OutOfRange == <<"panic">>

RECURSIVE AccumulateFaceNormals(_, _, _, _)
AccumulateFaceNormals(vertices, indices, normals, i) ==
    IF i >= Len(indices) THEN normals
    ELSE LET i1     == At(indices, i)
             i2     == At(indices, i + 1)
             i3     == At(indices, i + 2)
             v1     == VertexAt(vertices, i1)
             v2     == VertexAt(vertices, i2)
             v3     == VertexAt(vertices, i3)
             edge1  == Vec3Sub(v2, v1)
             edge2  == Vec3Sub(v3, v1)
             normal == Vec3Normalize(Vec3Cross(edge1, edge2))
             inside == \A k \in {i1, i2, i3} : k * 3 + 2 < Len(normals)
         IN  IF ~inside THEN OutOfRange
             ELSE AccumulateFaceNormals(vertices, indices,
                      AddAt(AddAt(AddAt(normals, i1, normal), i2, normal),
                            i3, normal),
                      i + 3)

RECURSIVE NormalizeAll(_, _)
NormalizeAll(normals, i) ==
    IF i >= Len(normals) THEN normals
    ELSE LET normal == Vec3Normalize(VertexAt(normals, i \div 3))
         IN  NormalizeAll(Put(Put(Put(normals, i, normal.X), i + 1, normal.Y),
                              i + 2, normal.Z),
                          i + 3)

calculateNormals(vertices, indices, normals) ==
    NormalizeAll(
        AccumulateFaceNormals(vertices, indices, Make(Len(normals)), 0), 0)

CellTrianglesClockwise(topLeft, topRight, bottomLeft, bottomRight) ==
    <<topLeft, topRight, bottomLeft, topRight, bottomRight, bottomLeft>>

CellTriangles(topLeft, topRight, bottomLeft, bottomRight) ==
    <<topLeft, bottomLeft, topRight, topRight, bottomLeft, bottomRight>>

(* One pass of the body of the triangulation loop, for the cell (i, j).    *)
SetCell(m) ==
    LET topLeft     == ToUint16(m.i * (m.segments + 1) + m.j)
        topRight    == ToUint16(topLeft + 1)
        bottomLeft  == ToUint16((m.i + 1) * (m.segments + 1) + m.j)
        bottomRight == ToUint16(bottomLeft + 1)
        cell        == CellTriangles(topLeft, topRight, bottomLeft, bottomRight)
        rowEnd      == m.j + 1 = m.segments
    IN  [m EXCEPT
            !.indices    = [k \in DOMAIN @ |->
                               IF k - 1 \in m.indexCount..(m.indexCount + 5)
                               THEN cell[k - m.indexCount] ELSE @[k]],
            !.written    = @ \cup (m.indexCount..(m.indexCount + 5)),
            !.indexCount = @ + 6,
            !.j          = IF rowEnd THEN 0 ELSE @ + 1,
            !.i          = IF rowEnd THEN @ + 1 ELSE @]

MeshOf(m) ==
    [Name          |-> m.Name,
     Vertices      |-> m.vertices,
     Normals       |-> m.normals,
     TexCoords     |-> m.texCoords,
     Indices       |-> m.indices,
     VertexCount   |-> m.vertexCount,
     TriangleCount |-> m.triangleCount]

CreateWaterMeshCall(segments) ==
    /\ mpc = "idle"
    /\ mesh' = Locals("water_plane", segments, 0)
    /\ mpc' = "vertices"
    /\ UNCHANGED <<appState, notServer, serverVars, cameraVars, callVars>>

CreateTerrainMeshCall(segments, slope) ==
    /\ mpc = "idle"
    /\ mesh' = Locals("terrain", segments, slope)
    /\ mpc' = "vertices"
    /\ UNCHANGED <<appState, notServer, serverVars, cameraVars, callVars>>

WaterVertices ==
    /\ mpc = "vertices"
    /\ mesh.Name = "water_plane"
    /\ mesh' = WaterVertexLoop(mesh, 0, 0)
    /\ mpc' = "indices"
    /\ UNCHANGED <<appState, notServer, serverVars, cameraVars, callVars>>

TerrainVertices ==
    /\ mpc = "vertices"
    /\ mesh.Name = "terrain"
    /\ mesh' = TerrainVertexLoop(mesh, 0, 0)
    /\ mpc' = "normals"
    /\ UNCHANGED <<appState, notServer, serverVars, cameraVars, callVars>>

TerrainNormals ==
    /\ mpc = "normals"
    /\ mesh' = [mesh EXCEPT
                   !.normals = calculateNormals(mesh.vertices, mesh.indices, @)]
    /\ mpc' = "indices"
    /\ UNCHANGED <<appState, notServer, serverVars, cameraVars, callVars>>

IndexLoopCell ==
    /\ mpc = "indices"
    /\ mesh.i < mesh.segments
    /\ mesh' = SetCell(mesh)
    /\ UNCHANGED <<appState, notServer, serverVars, cameraVars, callVars, mpc>>

MeshReturn ==
    /\ mpc = "indices"
    /\ mesh.i >= mesh.segments
    /\ mpc' = "done"
    /\ fn' = "Create"
    /\ arg' = <<mesh.Name, mesh.segments, mesh.slope>>
    /\ out' = MeshOf(mesh)
    /\ UNCHANGED <<appState, notServer, serverVars, cameraVars, mesh>>

(* calculateNormals applied to the arrays of a returned water plane.       *)
FlatNormals ==
    /\ mpc = "done"
    /\ mesh.Name = "water_plane"
    /\ mpc' = "recalculated"
    /\ fn' = "calculateNormals"
    /\ arg' = <<out.Vertices, out.Indices>>
    /\ out' = calculateNormals(out.Vertices, out.Indices, out.Normals)
    /\ UNCHANGED <<appState, notServer, serverVars, cameraVars, mesh>>

NextMesh ==
    \/ \E segments \in 1..MaxSegments : CreateWaterMeshCall(segments)
    \/ \E segments \in 1..MaxSegments, slope \in Slopes :
          CreateTerrainMeshCall(segments, slope)
    \/ WaterVertices
    \/ TerrainVertices
    \/ TerrainNormals
    \/ IndexLoopCell
    \/ MeshReturn
    \/ FlatNormals

SpecMesh == Init /\ [][NextMesh]_vars

(* C15: a generator called with segments returns a mesh with               *)
(* (segments+1)^2 vertices and 2*segments^2 triangles, whose arrays have   *)
(* 3, 3 and 2 floats per vertex and 3 indices per triangle, and the        *)
(* triangulation loop has written every slot of the index array; for       *)
(* segments = 2 that is 9 vertices, 8 triangles and 24 indices, and the    *)
(* meshes built at startup have 4,225 (water) and 1,089 (terrain)          *)
(* vertices.                                                               *)
C15_MeshCounts ==
    /\ mpc = "done" =>
          LET segments == arg[2]
          IN  /\ out.VertexCount = (segments + 1) * (segments + 1)
              /\ out.TriangleCount = 2 * segments * segments
              /\ Len(out.Vertices) = 3 * out.VertexCount
              /\ Len(out.Normals) = 3 * out.VertexCount
              /\ Len(out.TexCoords) = 2 * out.VertexCount
              /\ Len(out.Indices) = 3 * out.TriangleCount
              /\ mesh.written = 0..(Len(out.Indices) - 1)
              /\ segments = 2 =>
                    /\ out.VertexCount = 9
                    /\ out.TriangleCount = 8
                    /\ Len(out.Indices) = 24
    /\ VertexCount(WaterSegments) = 4225
    /\ VertexCount(TerrainSegments) = 1089

C15_Witness ==
    /\ mpc = "done"
    /\ arg = <<"terrain", 2, 4>>
    /\ Len(out.Indices) = 24
    /\ mesh.indexCount = 24

(* The index list C16 describes for a grid of segments x segments cells:   *)
(* cell (i, j) holds slots 6*(i*segments+j) .. +5; Index(v) is the value   *)
(* stored for the grid position v.                                         *)
GridIndices(segments, Index(_)) ==
    [k \in 1..(6 * segments * segments) |->
        LET cell        == (k - 1) \div 6
            i           == cell \div segments
            j           == cell % segments
            topLeft     == Index(i * (segments + 1) + j)
            topRight    == Index(topLeft + 1)
            bottomLeft  == Index((i + 1) * (segments + 1) + j)
            bottomRight == Index(bottomLeft + 1)
        IN  <<topLeft, bottomLeft, topRight,
              topRight, bottomLeft, bottomRight>>[((k - 1) % 6) + 1]]

Exactly(v) == v

C17_TerrainNormalsFromTriangulation ==
    (mpc = "done" /\ out.Name = "terrain") =>
        out.Normals = calculateNormals(out.Vertices, out.Indices, out.Normals)

(* What the generator returns instead: the zero vector at every vertex.    *)
C17_TerrainNormalsZero ==
    (mpc = "done" /\ out.Name = "terrain") =>
        \A k \in 1..Len(out.Normals) : out.Normals[k] = RZero

Up == NewVec3(RZero, ROne, RZero)

(* The normalized face normal of the triangle at slots 3t .. 3t+2.         *)
FaceNormal(vertices, indices, t) ==
    LET v1 == VertexAt(vertices, At(indices, 3 * t))
        v2 == VertexAt(vertices, At(indices, 3 * t + 1))
        v3 == VertexAt(vertices, At(indices, 3 * t + 2))
    IN  Vec3Normalize(Vec3Cross(Vec3Sub(v2, v1), Vec3Sub(v3, v1)))

----------------------------------------------------------------------------
(* math3d.Mat4: sixteen float32 in column-major order; element k of the    *)
(* Go array is at position k + 1.                                          *)

NewMat4(m00, m01, m02, m03, m10, m11, m12, m13, m20, m21, m22, m23, m30, m31, m32, m33) ==
    <<m00, m10, m20, m30,
      m01, m11, m21, m31,
      m02, m12, m22, m32,
      m03, m13, m23, m33>>

Identity ==
    <<ROne, RZero, RZero, RZero,
      RZero, ROne, RZero, RZero,
      RZero, RZero, ROne, RZero,
      RZero, RZero, RZero, ROne>>

Zero == [k \in 1..16 |-> RZero]

Get(m, row, col) == m[col * 4 + row + 1]

Set(m, row, col, value) == [m EXCEPT ![col * 4 + row + 1] = value]

RECURSIVE MultiplySum(_, _, _, _, _, _)
MultiplySum(m, other, i, j, k, sum) ==
    IF k >= 4 THEN sum
    ELSE MultiplySum(m, other, i, j, k + 1,
                     RAdd(sum, RMul(Get(m, i, k), Get(other, k, j))))

RECURSIVE MultiplyLoop(_, _, _, _, _)
MultiplyLoop(m, other, result, i, j) ==
    IF i >= 4 THEN result
    ELSE IF j >= 4 THEN MultiplyLoop(m, other, result, i + 1, 0)
    ELSE MultiplyLoop(m, other,
                      Set(result, i, j, MultiplySum(m, other, i, j, 0, RZero)),
                      i, j + 1)

(* The product taken in raw array order, result[i*4+j] as the sum of       *)
(* m[i*4+k] * other[k*4+j]: through the accessor that is other times m.    *)
MultiplyRaw(m, other) == MultiplyLoop(other, m, Zero, 0, 0)

Multiply(m, other) == MultiplyLoop(m, other, Zero, 0, 0)

(* The augmented matrix [A|I]: aug[i][j] is Cell(aug, i, j).               *)
Cell(aug, i, j) == aug[i + 1][j + 1]

Augment(m) ==
    [i \in 1..4 |->
        [j \in 1..8 |->
            IF j <= 4 THEN Get(m, i - 1, j - 1)
            ELSE IF j = i + 4 THEN ROne ELSE RZero]]

RECURSIVE FindPivot(_, _, _, _)
FindPivot(aug, i, k, maxRow) ==
    IF k >= 4 THEN maxRow
    ELSE FindPivot(aug, i, k + 1,
             IF RLess(RAbs(Cell(aug, maxRow, i)), RAbs(Cell(aug, k, i)))
             THEN k ELSE maxRow)

SwapRows(aug, i, maxRow) ==
    [aug EXCEPT ![i + 1] = aug[maxRow + 1], ![maxRow + 1] = aug[i + 1]]

ScalePivotRow(aug, i) ==
    LET pivot == Cell(aug, i, i)
    IN  [aug EXCEPT ![i + 1] = [j \in 1..8 |-> RDiv(@[j], pivot)]]

EliminateColumn(aug, i) ==
    [k \in 1..4 |->
        IF k - 1 # i
        THEN LET factor == Cell(aug, k - 1, i)
             IN  [j \in 1..8 |-> RSub(aug[k][j], RMul(factor, aug[i + 1][j]))]
        ELSE aug[k]]

Extract(aug) ==
    [k \in 1..16 |-> Cell(aug, (k - 1) % 4, ((k - 1) \div 4) + 4)]

(* An Inverse without the singular check.                                  *)
IsSingularNever(aug, i) == FALSE

IsSingular(aug, i) == Cell(aug, i, i) = RZero

(* The locals of a running Inverse; columns and pivots record, for each    *)
(* pass of the forward elimination, column i from row i down before the    *)
(* search and the pivot after the swap.                                    *)
InverseLocals(m) ==
    [aug     |-> Augment(m),
     i       |-> 0,
     columns |-> <<>>,
     pivots  |-> <<>>,
     done    |-> FALSE,
     result  |-> Zero,
     ok      |-> FALSE]

Rows ==
    {<<0, 0, 0, 0>>, <<1, 2, 0, 0>>, <<-3, 1, 0, 1>>, <<0, 0, 2, 1>>,
     <<0, 1, 1, 0>>}

FromRows(r0, r1, r2, r3) ==
    NewMat4(F(r0[1]), F(r0[2]), F(r0[3]), F(r0[4]),
            F(r1[1]), F(r1[2]), F(r1[3]), F(r1[4]),
            F(r2[1]), F(r2[2]), F(r2[3]), F(r2[4]),
            F(r3[1]), F(r3[2]), F(r3[3]), F(r3[4]))

(* Operands of Multiply: the identity, the zero matrix and the matrices    *)
(* with two rows drawn from Rows above two fixed rows.                     *)
Matrices ==
    {Identity, Zero}
        \cup {FromRows(r0, r1, <<0, 0, 2, 1>>, <<0, 1, 1, 0>>) : r0 \in Rows, r1 \in Rows}

MultiplyCall(m, other) ==
    /\ fn = "none"
    /\ fn' = "Multiply"
    /\ arg' = <<m, other>>
    /\ out' = Multiply(m, other)
    /\ UNCHANGED <<appState, notServer, serverVars, cameraVars, meshVars>>

InverseCall(m) ==
    /\ fn = "none"
    /\ fn' = "Inverse"
    /\ arg' = m
    /\ out' = InverseLocals(m)
    /\ UNCHANGED <<appState, notServer, serverVars, cameraVars, meshVars>>

(* One pass of the forward elimination that finds a non-zero pivot.        *)
InverseForward ==
    /\ fn = "Inverse"
    /\ ~out.done
    /\ out.i < 4
    /\ LET i       == out.i
           swapped == SwapRows(out.aug, i, FindPivot(out.aug, i, i + 1, i))
       IN  /\ ~IsSingular(swapped, i)
           /\ out' = [out EXCEPT
                         !.aug     = EliminateColumn(ScalePivotRow(swapped, i), i),
                         !.i       = i + 1,
                         !.columns = Append(@, [k \in (i + 1)..4 |-> out.aug[k][i + 1]]),
                         !.pivots  = Append(@, Cell(swapped, i, i))]
    /\ UNCHANGED <<appState, notServer, serverVars, cameraVars, meshVars, fn, arg>>

(* The pass that finds a zero pivot: return Mat4{}, false.                 *)
InverseSingular ==
    /\ fn = "Inverse"
    /\ ~out.done
    /\ out.i < 4
    /\ LET i       == out.i
           swapped == SwapRows(out.aug, i, FindPivot(out.aug, i, i + 1, i))
       IN  /\ IsSingular(swapped, i)
           /\ out' = [out EXCEPT
                         !.aug     = swapped,
                         !.columns = Append(@, [k \in (i + 1)..4 |-> out.aug[k][i + 1]]),
                         !.pivots  = Append(@, Cell(swapped, i, i)),
                         !.done    = TRUE,
                         !.result  = Zero,
                         !.ok      = FALSE]
    /\ UNCHANGED <<appState, notServer, serverVars, cameraVars, meshVars, fn, arg>>

InverseReturn ==
    /\ fn = "Inverse"
    /\ ~out.done
    /\ out.i >= 4
    /\ out' = [out EXCEPT !.done = TRUE, !.result = Extract(out.aug), !.ok = TRUE]
    /\ UNCHANGED <<appState, notServer, serverVars, cameraVars, meshVars, fn, arg>>

----------------------------------------------------------------------------
(* Normalize of Vec2, Vec4 and Quat (Vec3 is above).                       *)

NewVec2(x, y) == [X |-> x, Y |-> y]

NewVec4(x, y, z, w) == [X |-> x, Y |-> y, Z |-> z, W |-> w]

NewQuat(x, y, z, w) == [X |-> x, Y |-> y, Z |-> z, W |-> w]

QuatIdentity == NewQuat(RZero, RZero, RZero, ROne)

Vec2Length(v) == RSqrt(RAdd(RMul(v.X, v.X), RMul(v.Y, v.Y)))

Vec2Normalize(v) ==
    LET length == Vec2Length(v)
    IN  IF length = RZero
        THEN NewVec2(RZero, RZero)
        ELSE NewVec2(RDiv(v.X, length), RDiv(v.Y, length))

Vec4Length(v) ==
    RSqrt(RAdd(RAdd(RAdd(RMul(v.X, v.X), RMul(v.Y, v.Y)), RMul(v.Z, v.Z)),
               RMul(v.W, v.W)))

Vec4Normalize(v) ==
    LET length == Vec4Length(v)
    IN  IF length = RZero
        THEN NewVec4(RZero, RZero, RZero, RZero)
        ELSE NewVec4(RDiv(v.X, length), RDiv(v.Y, length),
                     RDiv(v.Z, length), RDiv(v.W, length))

QuatScale(q, s) ==
    NewQuat(RMul(q.X, s), RMul(q.Y, s), RMul(q.Z, s), RMul(q.W, s))

QuatLength(q) ==
    RSqrt(RAdd(RAdd(RAdd(RMul(q.X, q.X), RMul(q.Y, q.Y)), RMul(q.Z, q.Z)),
               RMul(q.W, q.W)))

QuatNormalize(q) ==
    LET length == QuatLength(q)
    IN  IF length = RZero
        THEN QuatIdentity
        ELSE QuatScale(q, RDiv(ROne, length))

(* Arguments whose length is a rational number.                            *)
Pairs == {<<0, 0>>, <<3, 4>>, <<-4, 3>>, <<0, -2>>, <<5, 12>>}

Triples == {<<0, 0, 0>>, <<1, 2, 2>>, <<-2, 3, 6>>, <<0, 3, -4>>, <<0, 0, 5>>}

Quadruples ==
    {<<0, 0, 0, 0>>, <<1, 1, 1, 1>>, <<2, -4, 5, 6>>, <<0, 0, 0, -3>>,
     <<1, 2, 2, 4>>}

Vec2NormalizeCall(v) ==
    /\ fn = "none"
    /\ fn' = "Vec2.Normalize"
    /\ arg' = v
    /\ out' = Vec2Normalize(v)
    /\ UNCHANGED <<appState, notServer, serverVars, cameraVars, meshVars>>

Vec3NormalizeCall(v) ==
    /\ fn = "none"
    /\ fn' = "Vec3.Normalize"
    /\ arg' = v
    /\ out' = Vec3Normalize(v)
    /\ UNCHANGED <<appState, notServer, serverVars, cameraVars, meshVars>>

Vec4NormalizeCall(v) ==
    /\ fn = "none"
    /\ fn' = "Vec4.Normalize"
    /\ arg' = v
    /\ out' = Vec4Normalize(v)
    /\ UNCHANGED <<appState, notServer, serverVars, cameraVars, meshVars>>

QuatNormalizeCall(q) ==
    /\ fn = "none"
    /\ fn' = "Quat.Normalize"
    /\ arg' = q
    /\ out' = QuatNormalize(q)
    /\ UNCHANGED <<appState, notServer, serverVars, cameraVars, meshVars>>

QuatMultiplySwapped(q, other) ==
    NewQuat(
        RSub(RAdd(RAdd(RMul(other.W, q.X), RMul(other.X, q.W)), RMul(other.Y, q.Z)), RMul(other.Z, q.Y)),
        RAdd(RAdd(RSub(RMul(other.W, q.Y), RMul(other.X, q.Z)), RMul(other.Y, q.W)), RMul(other.Z, q.X)),
        RAdd(RSub(RAdd(RMul(other.W, q.Z), RMul(other.X, q.Y)), RMul(other.Y, q.X)), RMul(other.Z, q.W)),
        RSub(RSub(RSub(RMul(other.W, q.W), RMul(other.X, q.X)), RMul(other.Y, q.Y)), RMul(other.Z, q.Z)))

QuatMultiply(q, other) ==
    NewQuat(
        RSub(RAdd(RAdd(RMul(q.W, other.X), RMul(q.X, other.W)), RMul(q.Y, other.Z)), RMul(q.Z, other.Y)),
        RAdd(RAdd(RSub(RMul(q.W, other.Y), RMul(q.X, other.Z)), RMul(q.Y, other.W)), RMul(q.Z, other.X)),
        RAdd(RSub(RAdd(RMul(q.W, other.Z), RMul(q.X, other.Y)), RMul(q.Y, other.X)), RMul(q.Z, other.W)),
        RSub(RSub(RSub(RMul(q.W, other.W), RMul(q.X, other.X)), RMul(q.Y, other.Y)), RMul(q.Z, other.Z)))

Conjugate(q) == NewQuat(RNeg(q.X), RNeg(q.Y), RNeg(q.Z), q.W)

RotateVec3(q, v) ==
    LET vecQuat == NewQuat(v.X, v.Y, v.Z, RZero)
        result  == QuatMultiply(QuatMultiply(q, vecQuat), Conjugate(q))
    IN  NewVec3(result.X, result.Y, result.Z)

(* q.Multiply(other).RotateVec3(v) next to q.RotateVec3(other.RotateVec3(v)). *)
RotateVec3Call(q, other, v) ==
    /\ fn = "none"
    /\ fn' = "RotateVec3"
    /\ arg' = <<q, other, v>>
    /\ out' = [product  |-> QuatMultiply(q, other),
               composed |-> RotateVec3(QuatMultiply(q, other), v),
               inTurn   |-> RotateVec3(q, RotateVec3(other, v))]
    /\ UNCHANGED <<appState, notServer, serverVars, cameraVars, meshVars>>

ToMat4(q) ==
    LET norm == QuatNormalize(q)
        x    == norm.X
        y    == norm.Y
        z    == norm.Z
        w    == norm.W
        xx   == RMul(x, x)
        yy   == RMul(y, y)
        zz   == RMul(z, z)
        xy   == RMul(x, y)
        xz   == RMul(x, z)
        yz   == RMul(y, z)
        wx   == RMul(w, x)
        wy   == RMul(w, y)
        wz   == RMul(w, z)
        Two(a) == RMul(F(2), a)
    IN  <<RSub(ROne, Two(RAdd(yy, zz))), Two(RAdd(xy, wz)), Two(RSub(xz, wy)), RZero,
          Two(RSub(xy, wz)), RSub(ROne, Two(RAdd(xx, zz))), Two(RAdd(yz, wx)), RZero,
          Two(RAdd(xz, wy)), Two(RSub(yz, wx)), RSub(ROne, Two(RAdd(xx, yy))), RZero,
          RZero, RZero, RZero, ROne>>

Trace(m) == RAdd(RAdd(Get(m, 0, 0), Get(m, 1, 1)), Get(m, 2, 2))

(* The branch by the rule "whichever of trace, m00, m11, m22 is largest".  *)
BranchOfLargest(m) ==
    LET trace == Trace(m)
        m00   == Get(m, 0, 0)
        m11   == Get(m, 1, 1)
        m22   == Get(m, 2, 2)
    IN  IF ~RLess(trace, m00) /\ ~RLess(trace, m11) /\ ~RLess(trace, m22)
        THEN "trace"
        ELSE IF RLess(m11, m00) /\ RLess(m22, m00) THEN "m00"
        ELSE IF RLess(m22, m11) THEN "m11"
        ELSE "m22"

(* The branch of the if-chain that QuatFromMat4 takes.                     *)
Branch(m) ==
    IF RLess(RZero, Trace(m)) THEN "trace"
    ELSE IF RLess(Get(m, 1, 1), Get(m, 0, 0)) /\ RLess(Get(m, 2, 2), Get(m, 0, 0))
    THEN "m00"
    ELSE IF RLess(Get(m, 2, 2), Get(m, 1, 1)) THEN "m11"
    ELSE "m22"

Quarter == Rat(1, 4)

QuatFromMat4(m) ==
    LET m00 == Get(m, 0, 0)
        m11 == Get(m, 1, 1)
        m22 == Get(m, 2, 2)
        S(a) == RMul(RSqrt(a), F(2))
    IN  CASE Branch(m) = "trace" ->
               LET s == S(RAdd(Trace(m), ROne))
               IN  NewQuat(RDiv(RSub(Get(m, 2, 1), Get(m, 1, 2)), s),
                           RDiv(RSub(Get(m, 0, 2), Get(m, 2, 0)), s),
                           RDiv(RSub(Get(m, 1, 0), Get(m, 0, 1)), s),
                           RMul(Quarter, s))
          [] Branch(m) = "m00" ->
               LET s == S(RSub(RSub(RAdd(ROne, m00), m11), m22))
               IN  NewQuat(RMul(Quarter, s),
                           RDiv(RAdd(Get(m, 0, 1), Get(m, 1, 0)), s),
                           RDiv(RAdd(Get(m, 0, 2), Get(m, 2, 0)), s),
                           RDiv(RSub(Get(m, 2, 1), Get(m, 1, 2)), s))
          [] Branch(m) = "m11" ->
               LET s == S(RSub(RSub(RAdd(ROne, m11), m00), m22))
               IN  NewQuat(RDiv(RAdd(Get(m, 0, 1), Get(m, 1, 0)), s),
                           RMul(Quarter, s),
                           RDiv(RAdd(Get(m, 1, 2), Get(m, 2, 1)), s),
                           RDiv(RSub(Get(m, 0, 2), Get(m, 2, 0)), s))
          [] OTHER ->
               LET s == S(RSub(RSub(RAdd(ROne, m22), m00), m11))
               IN  NewQuat(RDiv(RAdd(Get(m, 0, 2), Get(m, 2, 0)), s),
                           RDiv(RAdd(Get(m, 1, 2), Get(m, 2, 1)), s),
                           RMul(Quarter, s),
                           RDiv(RSub(Get(m, 1, 0), Get(m, 0, 1)), s))

(* Quaternions of rational length, for rotation matrices with rational     *)
(* cells, and diagonals of scale matrices.                                 *)
Rotations ==
    {<<0, 0, 0, 1>>, <<4, 0, 0, 3>>, <<3, 0, 0, 4>>, <<0, 4, 0, 3>>,
     <<0, 0, 4, 3>>, <<1, 0, 0, 0>>, <<0, 1, 0, 0>>, <<0, 0, 1, 0>>,
     <<1, 2, 2, 4>>, <<2, 4, 5, 6>>, <<1, 1, 1, 1>>, <<2, 1, 0, 2>>,
     <<4, 2, 1, 2>>, <<1, 4, 2, 2>>, <<1, 2, 4, 2>>}

Diagonals ==
    {<<9, -3, -3>>, <<-3, 9, -3>>, <<-3, -3, 9>>, <<0, 0, 0>>, <<-3, -3, -3>>,
     <<1, 1, 1>>, <<-1, 1, -1>>, <<2, -3, -3>>}

Diagonal(d) ==
    FromRows(<<d[1], 0, 0, 0>>, <<0, d[2], 0, 0>>, <<0, 0, d[3], 0>>,
             <<0, 0, 0, 1>>)

QuatFromMat4Call(m) ==
    /\ fn = "none"
    /\ fn' = "QuatFromMat4"
    /\ arg' = m
    /\ out' = [branch |-> Branch(m), q |-> QuatFromMat4(m)]
    /\ UNCHANGED <<appState, notServer, serverVars, cameraVars, meshVars>>

NextMath ==
    \/ \E r0 \in Rows, r1 \in Rows, r2 \in Rows, r3 \in Rows :
          InverseCall(FromRows(r0, r1, r2, r3))
    \/ \E m \in Matrices, other \in Matrices : MultiplyCall(m, other)
    \/ \E q \in Rotations :
          QuatFromMat4Call(ToMat4(NewQuat(F(q[1]), F(q[2]), F(q[3]), F(q[4]))))
    \/ \E d \in Diagonals : QuatFromMat4Call(Diagonal(d))
    \/ \E q \in Quadruples, o \in Quadruples, t \in Triples :
          RotateVec3Call(NewQuat(F(q[1]), F(q[2]), F(q[3]), F(q[4])),
                         NewQuat(F(o[1]), F(o[2]), F(o[3]), F(o[4])),
                         NewVec3(F(t[1]), F(t[2]), F(t[3])))
    \/ InverseForward
    \/ InverseSingular
    \/ InverseReturn
    \/ \E p \in Pairs : Vec2NormalizeCall(NewVec2(F(p[1]), F(p[2])))
    \/ \E t \in Triples : Vec3NormalizeCall(NewVec3(F(t[1]), F(t[2]), F(t[3])))
    \/ \E q \in Quadruples :
          Vec4NormalizeCall(NewVec4(F(q[1]), F(q[2]), F(q[3]), F(q[4])))
    \/ \E q \in Quadruples :
          QuatNormalizeCall(NewQuat(F(q[1]), F(q[2]), F(q[3]), F(q[4])))

SpecMath == Init /\ [][NextMath]_vars

(* C19: Inverse returns false for the all-zero matrix; it returns false    *)
(* whenever, in some pass i of the elimination, column i is zero in every  *)
(* row from i down; and it returns true only after four passes whose       *)
(* pivots were all non-zero.                                               *)
C19_InverseSuccessFlag ==
    (fn = "Inverse" /\ out.done) =>
        /\ arg = Zero => ~out.ok
        /\ (\E p \in 1..Len(out.columns) :
               \A k \in DOMAIN out.columns[p] : out.columns[p][k] = RZero)
              => ~out.ok
        /\ out.ok =>
              /\ Len(out.pivots) = 4
              /\ \A p \in 1..4 : out.pivots[p] # RZero

C19_Witness ==
    /\ fn = "Inverse"
    /\ out.done
    /\ ~out.ok
    /\ arg = FromRows(<<1, 2, 0, 0>>, <<-3, 1, 0, 1>>, <<0, 1, 1, 0>>, <<1, 2, 0, 0>>)
    /\ Len(out.pivots) = 4
    /\ out.pivots[4] = RZero

C19_WitnessInvertible ==
    /\ fn = "Inverse"
    /\ out.done
    /\ out.ok
    /\ Multiply(arg, out.result) = Identity

(* C20: Normalize of the zero Vec2, Vec3 or Vec4 is the zero vector,       *)
(* Normalize of the zero quaternion is the identity (0,0,0,1), and no      *)
(* Normalize divides by zero: every component it returns is finite.        *)
C20_NormalizeZero ==
    /\ (fn = "Vec2.Normalize" /\ arg = NewVec2(RZero, RZero))
          => out = NewVec2(RZero, RZero)
    /\ (fn = "Vec3.Normalize" /\ arg = Vec3Zero) => out = Vec3Zero
    /\ (fn = "Vec4.Normalize" /\ arg = NewVec4(RZero, RZero, RZero, RZero))
          => out = NewVec4(RZero, RZero, RZero, RZero)
    /\ (fn = "Quat.Normalize" /\ arg = NewQuat(RZero, RZero, RZero, RZero))
          => out = NewQuat(RZero, RZero, RZero, ROne)
    /\ fn \in {"Vec2.Normalize", "Vec3.Normalize", "Vec4.Normalize",
               "Quat.Normalize"}
          => \A c \in DOMAIN out : IsFinite(out[c])

C20_Witness ==
    /\ fn = "Quat.Normalize"
    /\ arg = NewQuat(RZero, RZero, RZero, RZero)
    /\ out = QuatIdentity

(* The element (i, j) of the matrix product of a and b, read and written   *)
(* through the accessor.                                                   *)
ProductAt(a, b, i, j) ==
    RAdd(RAdd(RAdd(RMul(Get(a, i, 0), Get(b, 0, j)),
                   RMul(Get(a, i, 1), Get(b, 1, j))),
              RMul(Get(a, i, 2), Get(b, 2, j))),
         RMul(Get(a, i, 3), Get(b, 3, j)))

(* C21: Multiply is the matrix product through the accessor Get(row, col)  *)
(* = cells[col*4+row], result(i,j) = sum over k of A(i,k)*B(k,j), and      *)
(* Identity().Multiply(M) is M for every matrix M.                         *)
C21_IdentityMultiply ==
    fn = "Multiply" =>
        /\ \A i \in 0..3, j \in 0..3 :
              out[j * 4 + i + 1] = ProductAt(arg[1], arg[2], i, j)
        /\ arg[1] = Identity => out = arg[2]

C21_Witness ==
    /\ fn = "Multiply"
    /\ arg[1] = Identity
    /\ arg[2] = FromRows(<<1, 2, 0, 0>>, <<-3, 1, 0, 1>>, <<0, 0, 2, 1>>, <<0, 1, 1, 0>>)
    /\ out = arg[2]
    /\ Get(out, 1, 0) = F(-3)
    /\ out[2] = F(-3)

(* The Hamilton product in scalar and vector parts:                        *)
(* (w1, v1)(w2, v2) = (w1*w2 - v1.v2, w1*v2 + w2*v1 + v1 x v2).            *)
VectorPart(q) == NewVec3(q.X, q.Y, q.Z)

Dot3(a, b) == RAdd(RAdd(RMul(a.X, b.X), RMul(a.Y, b.Y)), RMul(a.Z, b.Z))

Hamilton(p, q) ==
    LET v1 == VectorPart(p)
        v2 == VectorPart(q)
        c  == Vec3Cross(v1, v2)
    IN  NewQuat(RAdd(RAdd(RMul(p.W, v2.X), RMul(q.W, v1.X)), c.X),
                RAdd(RAdd(RMul(p.W, v2.Y), RMul(q.W, v1.Y)), c.Y),
                RAdd(RAdd(RMul(p.W, v2.Z), RMul(q.W, v1.Z)), c.Z),
                RSub(RMul(p.W, q.W), Dot3(v1, v2)))

(* C22: Multiply is the Hamilton product, RotateVec3(v) is the vector part *)
(* of q * (v,0) * conjugate(q), and q.Multiply(other).RotateVec3(v) equals *)
(* q.RotateVec3(other.RotateVec3(v)): other's rotation first, q's second.  *)
C22_CompositionOrder ==
    fn = "RotateVec3" =>
        LET q     == arg[1]
            other == arg[2]
            v     == NewQuat(arg[3].X, arg[3].Y, arg[3].Z, RZero)
        IN  /\ out.product = Hamilton(q, other)
            /\ out.composed
                  = VectorPart(Hamilton(Hamilton(out.product, v),
                                        Conjugate(out.product)))
            /\ out.composed = out.inTurn

C22_Witness ==
    /\ fn = "RotateVec3"
    /\ arg[1] = NewQuat(F(1), F(1), F(1), F(1))
    /\ arg[2] = NewQuat(F(0), F(0), F(0), F(-3))
    /\ arg[3] = NewVec3(F(1), F(2), F(2))
    /\ out.composed = NewVec3(F(72), F(36), F(72))
    /\ out.composed = out.inTurn

AtLeast(a, b) == ~RLess(a, b)

Largest(x, others) == \A y \in others : AtLeast(x, y)

StrictlyLargest(x, others) == \A y \in others : RLess(y, x)

(* C23 as stated: the trace branch is taken exactly when trace is the      *)
(* largest of trace, m00, m11 and m22, the m00 branch exactly when m00 is, *)
(* the m11 branch exactly when m11 is, and the m22 branch otherwise (a     *)
(* value that ties for the largest may or may not count as the largest).   *)
C23_BranchOfLargest ==
    fn = "QuatFromMat4" =>
        LET trace == Trace(arg)
            m00   == Get(arg, 0, 0)
            m11   == Get(arg, 1, 1)
            m22   == Get(arg, 2, 2)
        IN  /\ out.branch = "trace" => Largest(trace, {m00, m11, m22})
            /\ StrictlyLargest(trace, {m00, m11, m22}) => out.branch = "trace"
            /\ out.branch = "m00" => Largest(m00, {trace, m11, m22})
            /\ StrictlyLargest(m00, {trace, m11, m22}) => out.branch = "m00"
            /\ out.branch = "m11" => Largest(m11, {trace, m00, m22})
            /\ StrictlyLargest(m11, {trace, m00, m22}) => out.branch = "m11"

(* C23, amended: the trace branch is taken exactly when trace > 0;         *)
(* otherwise the m00 branch exactly when m00 > m11 and m00 > m22;          *)
(* otherwise the m11 branch exactly when m11 > m22; the m22 branch in      *)
(* every other case. The component the branch is named after is a quarter  *)
(* of s, twice the square root the branch takes.                           *)
C23_BranchOfTraceSign ==
    fn = "QuatFromMat4" =>
        LET trace == Trace(arg)
            m00   == Get(arg, 0, 0)
            m11   == Get(arg, 1, 1)
            m22   == Get(arg, 2, 2)
            first  == RLess(RZero, trace)
            second == ~first /\ RLess(m11, m00) /\ RLess(m22, m00)
            third  == ~first /\ ~second /\ RLess(m22, m11)
            Half(a) == RDiv(RSqrt(a), F(2))
        IN  /\ out.branch = "trace" <=> first
            /\ out.branch = "m00" <=> second
            /\ out.branch = "m11" <=> third
            /\ out.branch = "m22" <=> (~first /\ ~second /\ ~third)
            /\ first => out.q.W = Half(RAdd(trace, ROne))
            /\ second => out.q.X = Half(RSub(RSub(RAdd(ROne, m00), m11), m22))
            /\ third => out.q.Y = Half(RSub(RSub(RAdd(ROne, m11), m00), m22))
            /\ (~first /\ ~second /\ ~third)
                  => out.q.Z = Half(RSub(RSub(RAdd(ROne, m22), m00), m11))

C23_Witness ==
    /\ fn = "QuatFromMat4"
    /\ arg = ToMat4(NewQuat(F(4), F(0), F(0), F(3)))
    /\ RLess(Trace(arg), Get(arg, 0, 0))
    /\ out.branch = "trace"
    /\ out.q = NewQuat(Rat(4, 5), RZero, RZero, Rat(3, 5))

----------------------------------------------------------------------------
(* The POST handlers of /api/state/water and /api/state/camera.  A pointer *)
(* field of a request is <<>> when nil and <<v>> when it points to v.  A   *)
(* body is the request it encodes and its form: "value" is one JSON value  *)
(* and nothing else, "trailing" a JSON value followed by bytes that are no *)
(* JSON, "malformed" a text with a syntax error in its first value,        *)
(* "mistyped" a JSON value with a field of the wrong type, "empty" no      *)
(* bytes at all.                                                           *)

Nil == <<>>

Ptr(v) == <<v>>

Deref(p) == p[1]

Forms == {"value", "trailing", "malformed", "mistyped", "empty"}

Opt(values) == {Nil} \cup {Ptr(v) : v \in values}

WaterUpdateRequest ==
    [Reflectivity    : Opt({250}),
     FresnelStrength : Opt({-100}),
     WaveSpeed       : Opt({250}),
     UseReflection   : Opt({FALSE}),
     UseRefraction   : Opt({FALSE})]

CameraUpdateRequest ==
    [MouseDown : Opt({[X |-> 30, Y |-> 40]}),
     MouseUp   : Opt(BOOLEAN),
     MouseMove : Opt({[X |-> 0, Y |-> 10 * PixelsPerRadian]}),
     Zoom      : Opt({4})]

Bodies(requests) ==
    [form : {"value", "trailing"}, req : requests]
        \cup [form : {"malformed", "mistyped", "empty"},
              req  : {r \in requests : \A f \in DOMAIN r : r[f] # Nil}]

(* json.NewDecoder(r.Body).Decode(&req): the decoder reads the first JSON  *)
(* value of the body and does not look at what follows it.                 *)
Decode(body) ==
    [err |-> body.form \in {"malformed", "mistyped", "empty"},
     req |-> body.req]

RECURSIVE UpdateAll(_, _)
UpdateAll(s, msgs) ==
    IF msgs = <<>> THEN s ELSE UpdateAll(Update(s, Head(msgs)), Tail(msgs))

If(cond, m) == IF cond THEN <<m>> ELSE <<>>

WaterMessages(req) ==
    If(req.Reflectivity # Nil,
       Msg("SetReflectivity", 0, 0, Deref(req.Reflectivity), FALSE))
    \o If(req.FresnelStrength # Nil,
          Msg("SetFresnel", 0, 0, Deref(req.FresnelStrength), FALSE))
    \o If(req.WaveSpeed # Nil,
          Msg("SetWaveSpeed", 0, 0, Deref(req.WaveSpeed), FALSE))
    \o If(req.UseReflection # Nil,
          Msg("UseReflection", 0, 0, 0, Deref(req.UseReflection)))
    \o If(req.UseRefraction # Nil,
          Msg("UseRefraction", 0, 0, 0, Deref(req.UseRefraction)))

MouseUpPresent(req) == req.MouseUp # Nil

MouseUpWanted(req) == req.MouseUp # Nil /\ Deref(req.MouseUp)

CameraMessages(req) ==
    If(req.MouseDown # Nil,
       Msg("MouseDown", Deref(req.MouseDown).X, Deref(req.MouseDown).Y, 0, FALSE))
    \o If(MouseUpWanted(req), Msg("MouseUp", 0, 0, 0, FALSE))
    \o If(req.MouseMove # Nil,
          Msg("MouseMove", Deref(req.MouseMove).X, Deref(req.MouseMove).Y, 0, FALSE))
    \o If(req.Zoom # Nil, Msg("Zoom", 0, 0, Deref(req.Zoom), FALSE))

StatusBadRequest == 400

StatusOK == 200

(* A handler run on a body: the status it answers with and the messages it *)
(* hands to Update, in order.                                              *)
Handle(body, msgs) ==
    IF Decode(body).err
    THEN [status |-> StatusBadRequest, sent |-> <<>>, before |-> appState]
    ELSE [status |-> StatusOK, sent |-> msgs, before |-> appState]

handleUpdateWater(body) ==
    /\ calls < MaxPosts
    /\ calls' = calls + 1
    /\ fn' = "handleUpdateWater"
    /\ arg' = body
    /\ out' = Handle(body, WaterMessages(Decode(body).req))
    /\ appState' = UpdateAll(appState, out'.sent)
    /\ UNCHANGED <<notServer, serverVars, cam, meshVars>>

handleUpdateCamera(body) ==
    /\ calls < MaxPosts
    /\ calls' = calls + 1
    /\ fn' = "handleUpdateCamera"
    /\ arg' = body
    /\ out' = Handle(body, CameraMessages(Decode(body).req))
    /\ appState' = UpdateAll(appState, out'.sent)
    /\ UNCHANGED <<notServer, serverVars, cam, meshVars>>

NextHttp ==
    \/ \E body \in Bodies(WaterUpdateRequest) : handleUpdateWater(body)
    \/ \E body \in Bodies(CameraUpdateRequest) : handleUpdateCamera(body)

SpecHttp == Init /\ [][NextHttp]_vars

Posted == fn \in {"handleUpdateWater", "handleUpdateCamera"}

(* C24 as stated: a POST whose body is not valid JSON is answered with 400 *)
(* and applies no message, so the state is the same after it as before.    *)
C24_InvalidJsonRejected ==
    (Posted /\ arg.form # "value") =>
        /\ out.status = StatusBadRequest
        /\ out.sent = <<>>
        /\ appState = out.before

(* The message type a request field stands for.                            *)
TypeOf ==
    [Reflectivity |-> "SetReflectivity", FresnelStrength |-> "SetFresnel",
     WaveSpeed |-> "SetWaveSpeed", UseReflection |-> "UseReflection",
     UseRefraction |-> "UseRefraction", MouseDown |-> "MouseDown",
     MouseUp |-> "MouseUp", MouseMove |-> "MouseMove", Zoom |-> "Zoom"]

Sent(t) == {k \in 1..Len(out.sent) : out.sent[k].type = t}

Carries(m, f, v) ==
    CASE f \in {"Reflectivity", "FresnelStrength", "WaveSpeed", "Zoom"} -> m.Num = v
      [] f \in {"UseReflection", "UseRefraction"} -> m.Flag = v
      [] f \in {"MouseDown", "MouseMove"} -> m.X = v.X /\ m.Y = v.Y
      [] OTHER -> TRUE

(* C24, amended: a POST whose body does not start with a JSON value that   *)
(* decodes into the request type (a malformed, mistyped or empty body) is  *)
(* answered with 400 and applies no message, the state being the same      *)
(* after it as before; any other body, bytes after the first JSON value    *)
(* included, is answered with 200, and exactly the fields present in its   *)
(* first value produce a message each, carrying the field's value, except  *)
(* that a mouseUp field with value false produces none.                    *)
C24_PostAppliesPresentFields ==
    Posted =>
        /\ arg.form \in {"malformed", "mistyped", "empty"} =>
              /\ out.status = StatusBadRequest
              /\ out.sent = <<>>
              /\ appState = out.before
        /\ arg.form \in {"value", "trailing"} =>
              /\ out.status = StatusOK
              /\ appState = UpdateAll(out.before, out.sent)
              /\ \A k \in 1..Len(out.sent) :
                    \E f \in DOMAIN arg.req : out.sent[k].type = TypeOf[f]
              /\ \A f \in DOMAIN arg.req :
                    IF arg.req[f] = Nil \/ (f = "MouseUp" /\ arg.req[f] = Ptr(FALSE))
                    THEN Sent(TypeOf[f]) = {}
                    ELSE /\ Cardinality(Sent(TypeOf[f])) = 1
                         /\ \A k \in Sent(TypeOf[f]) :
                               Carries(out.sent[k], f, Deref(arg.req[f]))

C24_Witness ==
    /\ fn = "handleUpdateCamera"
    /\ calls = MaxPosts
    /\ arg.form = "value"
    /\ arg.req.MouseUp = Ptr(FALSE)
    /\ arg.req.MouseDown = Nil
    /\ arg.req.Zoom = Ptr(4)
    /\ out.before.mouse.pressed
    /\ appState.mouse.pressed
    /\ appState.camera.distance = out.before.camera.distance + 4

(***************************************************************************)
(* Writers of one connection and accesses to the clients map,              *)
(* internal/app/server.go 369-430.                                         *)
(***************************************************************************)

(* The handler of connection c is inside its initial sendStateUpdate,      *)
(* line 384, whose conn.WriteJSON has not returned.                        *)
HandlerWriting(c) == hpc[c] = "initialWrite"

(* The timer goroutine is inside the sendStateUpdate of                     *)
(* broadcastStateUpdate, line 405, for connection c.                       *)
TimerWriting(c) == tpc = "write" /\ tconn = c

(* C25: at most one goroutine writes to a given WebSocket connection at a  *)
(* time: the initial push of the connection's handler never overlaps a     *)
(* push of the timer's broadcast to the same connection.                   *)
C25_OneWriterPerConnection ==
    \A c \in Conns : ~(HandlerWriting(c) /\ TimerWriting(c))

(* The next step of the handler of c writes the clients map: the           *)
(* assignment of line 378 or the deferred delete of line 379.              *)
HandlerAtMapWrite(c) == hpc[c] \in {"register", "deregister"}

(* The next step of the timer goroutine writes the clients map: the        *)
(* delete of line 407.                                                     *)
TimerAtMapWrite == tpc = "delete"

(* The next step of the timer goroutine reads the clients map: len of      *)
(* line 400 or an iteration of the range of line 404.                      *)
TimerAtMapRead == tpc \in {"broadcast", "range"}

(* C26: the accesses to the clients map are mutually exclusive: a          *)
(* handler's registration or deregistration is never pending together      *)
(* with that of another handler, nor inside the timer's range over the map *)
(* or together with its len or delete, nothing ordering the two accesses.  *)
C26_ClientsAccessExclusive ==
    /\ \A c \in Conns : \A d \in Conns \ {c} :
          ~(HandlerAtMapWrite(c) /\ HandlerAtMapWrite(d))
    /\ \A c \in Conns :
          ~(HandlerAtMapWrite(c) /\ (Ranging \/ TimerAtMapRead \/ TimerAtMapWrite))

(***************************************************************************)
(* Snapshots, internal/app/server.go 261-277 and 414-430: four getter      *)
(* calls, each under its own RLock, then the write.                        *)
(***************************************************************************)

(* The states the application state has had between Updates: NewState      *)
(* and the state after each Update that took the lock, in lock order.      *)
History == {ApplyAll(NewState, SubSeq(applied, 1, k)) : k \in 0..Len(applied)}

(* What the four getters return when all of them read state s.             *)
SnapshotOf(s) ==
    <<GetterValue(s, Getters[1]), GetterValue(s, Getters[2]),
      GetterValue(s, Getters[3]), GetterValue(s, Getters[4])>>

(* C27: every snapshot delivered is consistent: the camera, water, clock   *)
(* and scenery values a goroutine is about to write all belong to one      *)
(* state the application state actually had, also when Updates run         *)
(* between its getter calls.                                               *)
C27_SnapshotConsistent ==
    \A g \in Goroutines :
        pc[g] = "Write" => \E s \in History : snap[g] = SnapshotOf(s)

(***************************************************************************)
(* The deltas of a pressed mouse-move, state.go 79-84, over the whole      *)
(* range of the int32 coordinates.                                         *)
(***************************************************************************)

(* C28: for every pair of pixel positions, the extremes of the coordinate  *)
(* type included, the deltas of a mouse-move reduced while pressed are     *)
(* the mathematical differences oldX - newX and newY - oldY, not wrapped   *)
(* modulo the width of the type, and the yaw moves by oldX - newX pixels.  *)
C28_DeltasNeverWrap ==
    [][(last'.type = "MouseMove" /\ appState.mouse.pressed) =>
         /\ XDelta(GetPos(appState.mouse), last') = appState.mouse.x - last'.X
         /\ YDelta(GetPos(appState.mouse), last') = last'.Y - appState.mouse.y
         /\ appState'.camera.yaw = camera.yaw + (appState.mouse.x - last'.X)]_vars

(***************************************************************************)
(* The width of the stored indices, part_003 172-178, against the number   *)
(* of vertices of the grid.                                                *)
(***************************************************************************)

(* The grid position the triangulation intends for slot k of the index     *)
(* list of a grid of segments x segments cells.                            *)
IntendedIndex(segments, k) == GridIndices(segments, Exactly)[k]

(* C29: for every segments >= 1 each index stored in a returned mesh is a  *)
(* valid vertex index, below the vertex count, and is the intended grid    *)
(* position itself, not its truncation to the width of the index type,     *)
(* also on grids with more vertices than the index type has values.        *)
C29_IndicesNeverTruncated ==
    mpc = "done" =>
        \A k \in DOMAIN out.Indices :
            /\ out.Indices[k] < out.VertexCount
            /\ out.Indices[k] = IntendedIndex(arg[2], k)

(***************************************************************************)
(* Which messages move the camera, state.go 63-101.                        *)
(***************************************************************************)

(* The message types whose case of the type switch has no camera call.     *)
NoCameraTypes == {"AdvanceClock", "MouseDown", "MouseUp"} \cup PropertyTypes

(* C30: the camera orbits only during a drag.  Yaw and pitch change only   *)
(* in the step of a mouse-move reduced while the pressed flag is set, the  *)
(* distance changes only in a zoom step, and a mouse-down, mouse-up,       *)
(* advance-clock, property-set or scenery message leaves the whole camera  *)
(* as it was.                                                              *)
C30_OrbitOnlyDuringDrag ==
    [][/\ (appState'.camera.yaw # camera.yaw \/ appState'.camera.pitch # camera.pitch)
            => (last'.type = "MouseMove" /\ appState.mouse.pressed)
       /\ appState'.camera.distance # camera.distance => last'.type = "Zoom"
       /\ last'.type \in NoCameraTypes => appState'.camera = camera]_vars

C30_Witness ==
    /\ last.type = "MouseUp"
    /\ ~appState.mouse.pressed
    /\ appState.mouse.x = 30 /\ appState.mouse.y = 40
    /\ camera.yaw = -30
    /\ camera.pitch = DefaultPitch + 40
    /\ camera.distance = NewCamera.distance

====
